---- MODULE Spec2Model ----
(***************************************************************************)
(* bevy_settings: delta-encoded persistence of settings sections.          *)
(*                                                                         *)
(*  - the delta engine (delta.rs): compute_delta / merge_with_defaults     *)
(*    over serde_json value trees           -> specification SpecDelta     *)
(*  - the unified store (plugin.rs, storage.rs): plugin load, auto-save    *)
(*    on change, one file for all sections  -> specification Spec          *)
(***************************************************************************)
EXTENDS Integers, Sequences, FiniteSets, TLC

(***************************************************************************)
(* Bounds of the model.                                                    *)
(***************************************************************************)
\* numbers that occur in value trees and in integer fields are 0..MaxNum
MaxNum == 1

(***************************************************************************)
(* serde_json::Value.  An object is a function from its keys to values     *)
(* (serde_json::Map has unique keys and order-insensitive equality).       *)
(* Option<Value> is a Value or None.                                       *)
(***************************************************************************)
Null == [t |-> "null"]
Bool(x) == [t |-> "bool", b |-> x]
Num(x) == [t |-> "num", n |-> x]
Str(x) == [t |-> "str", s |-> x]
Arr(x) == [t |-> "seq", q |-> x]
Obj(x) == [t |-> "obj", m |-> x]
None == [t |-> "none"]
EmptyMap == [k \in {} |-> Null]

IsObj(v) == v.t = "obj"
Keys(v) == DOMAIN v.m

(***************************************************************************)
(* delta.rs                                                                *)
(***************************************************************************)
\* a diff that does not recurse: a changed object is copied whole
compute_value_delta_shallow(current, default) ==
    IF IsObj(current) /\ IsObj(default)
    THEN LET kept == {k \in Keys(current) :
                         k \notin Keys(default) \/ current.m[k] # default.m[k]}
         IN IF kept = {} THEN None ELSE Obj([k \in kept |-> current.m[k]])
    ELSE IF current # default THEN current ELSE None

\* a diff that copies a changed object whole, at the root as well
compute_value_delta_whole(current, default) ==
    IF current # default THEN current ELSE None

\* a diff that also diffs sequences element by element: of a changed
\* sequence it keeps the elements that differ from the default's
RECURSIVE compute_value_delta_elementwise(_, _)
compute_value_delta_elementwise(current, default) ==
    IF IsObj(current) /\ IsObj(default)
    THEN LET nested(k) ==
                 compute_value_delta_elementwise(current.m[k], default.m[k])
             kept == {k \in Keys(current) :
                         IF k \in Keys(default)
                         THEN current.m[k] # default.m[k] /\ nested(k) # None
                         ELSE TRUE}
             delta_map == [k \in kept |->
                             IF k \in Keys(default) THEN nested(k)
                             ELSE current.m[k]]
         IN IF kept = {} THEN None ELSE Obj(delta_map)
    ELSE IF current.t = "seq" /\ default.t = "seq" /\ current # default
    THEN LET differs(i) == i > Len(default.q) \/ current.q[i] # default.q[i]
             F[i \in 0..Len(current.q)] ==
                 IF i = 0 THEN <<>>
                 ELSE IF differs(i) THEN Append(F[i - 1], current.q[i])
                      ELSE F[i - 1]
         IN Arr(F[Len(current.q)])
    ELSE IF current # default THEN current ELSE None

RECURSIVE compute_value_delta(_, _)
compute_value_delta(current, default) ==
    IF IsObj(current) /\ IsObj(default)
    THEN LET nested(k) == compute_value_delta(current.m[k], default.m[k])
             kept == {k \in Keys(current) :
                         IF k \in Keys(default)
                         THEN current.m[k] # default.m[k] /\ nested(k) # None
                         ELSE TRUE}
             delta_map == [k \in kept |->
                             IF k \in Keys(default) THEN nested(k)
                             ELSE current.m[k]]
         IN IF kept = {} THEN None ELSE Obj(delta_map)
    ELSE IF current # default THEN current ELSE None

\* a merge that does not recurse: a key of the source replaces the
\* target's value whole
merge_values_shallow(target, source) ==
    IF IsObj(target) /\ IsObj(source)
    THEN Obj([k \in Keys(target) \cup Keys(source) |->
                IF k \in Keys(source) THEN source.m[k] ELSE target.m[k]])
    ELSE source

\* a merge that appends a sequence of the source to the target's
RECURSIVE merge_values_appending(_, _)
merge_values_appending(target, source) ==
    IF IsObj(target) /\ IsObj(source)
    THEN Obj([k \in Keys(target) \cup Keys(source) |->
                IF k \in Keys(source)
                THEN IF k \in Keys(target)
                     THEN merge_values_appending(target.m[k], source.m[k])
                     ELSE source.m[k]
                ELSE target.m[k]])
    ELSE IF target.t = "seq" /\ source.t = "seq"
    THEN Arr(target.q \o source.q)
    ELSE source

RECURSIVE merge_values(_, _)
merge_values(target, source) ==
    IF IsObj(target) /\ IsObj(source)
    THEN Obj([k \in Keys(target) \cup Keys(source) |->
                IF k \in Keys(source)
                THEN IF k \in Keys(target)
                     THEN merge_values(target.m[k], source.m[k])
                     ELSE source.m[k]
                ELSE target.m[k]])
    ELSE source

\* a compute_delta that always returns Some(object)
compute_delta_always_some(settings, defaults) ==
    LET d == compute_value_delta(settings, defaults)
    IN IF d = None THEN Obj(EmptyMap) ELSE d

\* compute_delta::<T>(settings), T::default() serialising to `defaults`
compute_delta(settings, defaults) ==
    IF settings = defaults THEN None
    ELSE compute_value_delta(settings, defaults)

\* merge_with_defaults::<T>(delta) for a T that deserialises from any tree
merge_with_defaults(delta, defaults) ==
    IF delta = None THEN defaults
    ELSE merge_values(defaults, delta)

(***************************************************************************)
(* Specification SpecDelta: the delta engine on bounded value trees.       *)
(* Trees have at most two levels of objects over the keys "a" and "b";     *)
(* the leaves are null, a boolean, the numbers 0..MaxNum and two           *)
(* sequences, one a prefix of the other.                                   *)
(***************************************************************************)
TreeKeys == {"a", "b"}
Leaves ==
    {Null, Bool(TRUE), Arr(<<Num(0)>>), Arr(<<Num(0), Num(MaxNum)>>)}
    \cup {Num(i) : i \in 0..MaxNum}
ObjectsOver(vals) ==
    UNION {{Obj(f) : f \in [ks -> vals]} : ks \in SUBSET TreeKeys}
Trees1 == Leaves \cup ObjectsOver(Leaves)
Trees == Leaves \cup ObjectsOver(Trees1)

\* the serialised T::default() of the settings types tried
DefaultTrees ==
    { Obj([a |-> Num(0), b |-> Obj([a |-> Bool(TRUE), b |-> Num(0)])]),
      Obj([a |-> Obj([a |-> Num(0)]), b |-> Arr(<<Num(0)>>)]),
      Obj([a |-> Num(0)]),
      Obj([b |-> Arr(<<Num(0)>>)]),
      Num(0) }

VARIABLES dSettings, dDefaults, dDelta, dMerged, dAgain, dPc

dvars == <<dSettings, dDefaults, dDelta, dMerged, dAgain, dPc>>

DeltaInit ==
    /\ dSettings \in Trees
    /\ dDefaults \in DefaultTrees
    /\ dDelta = None
    /\ dMerged = None
    /\ dAgain = None
    /\ dPc = "input"

\* let delta = compute_delta(&settings);
DoComputeDelta ==
    /\ dPc = "input"
    /\ dDelta' = compute_delta(dSettings, dDefaults)
    /\ dPc' = "delta"
    /\ UNCHANGED <<dSettings, dDefaults, dMerged, dAgain>>

\* let merged = merge_with_defaults(delta.as_ref());
DoMerge ==
    /\ dPc = "delta"
    /\ dMerged' = merge_with_defaults(dDelta, dDefaults)
    /\ dPc' = "merged"
    /\ UNCHANGED <<dSettings, dDefaults, dDelta, dAgain>>

\* merge_values(&mut defaults_value, delta) for a delta that is any tree
\* (one read from a file): the tree in dSettings is taken as the delta
DoOverlay ==
    /\ dPc = "input"
    /\ dMerged' = merge_values(dDefaults, dSettings)
    /\ dPc' = "overlay"
    /\ UNCHANGED <<dSettings, dDefaults, dDelta, dAgain>>

\* merge_values(&mut merged, delta) once more, with the same delta
DoOverlayAgain ==
    /\ dPc = "overlay"
    /\ dAgain' = merge_values(dMerged, dSettings)
    /\ dPc' = "again"
    /\ UNCHANGED <<dSettings, dDefaults, dDelta, dMerged>>


(***************************************************************************)
(* The settings types registered with the plugin: TestSettings and         *)
(* MigratableSettings of tests/integration.rs.  A value of a type is       *)
(* represented by the tree serde_json::to_value gives for it: an object    *)
(* with exactly the struct's fields.                                       *)
(***************************************************************************)
Err == [t |-> "err"]

\* the types registered with the plugin (SettingsPlugin::register::<T>)
Types == {"TestSettings", "MigratableSettings"}

\* T::SECTION
SECTION(T) ==
    CASE T = "TestSettings" -> "testsettings"
      [] T = "MigratableSettings" -> "migratable"
      [] T = "FailingSettings" -> "failing"

\* the fields of each struct in declaration order, and their types
Fields(T) ==
    IF T = "TestSettings" THEN <<"value", "name">>
    ELSE <<"value", "name", "new_field">>
FieldSet(T) == {Fields(T)[i] : i \in 1..Len(Fields(T))}
FieldType(T, f) ==
    CASE f = "value" -> "i32"
      [] f = "name" -> "String"
      [] f = "new_field" -> "Option<String>"
\* #[serde(default)] on the field
SerdeDefault(T, f) == f = "new_field"

\* impl Default for TestSettings / MigratableSettings
Default(T) ==
    IF T = "TestSettings"
    THEN Obj([value |-> Num(42), name |-> Str("default")])
    ELSE Obj([value |-> Num(100), name |-> Str("default"),
              new_field |-> Str("new")])

\* serde: a value of the field's type from a tree, or Err
field_from_value(ty, v) ==
    CASE ty = "i32" -> IF v.t = "num" THEN v ELSE Err
      [] ty = "String" -> IF v.t = "str" THEN v ELSE Err
      [] ty = "Option<String>" -> IF v.t \in {"null", "str"} THEN v ELSE Err

\* serde_json::from_value::<T>: a derived struct reads an object by field
\* name (unknown keys are ignored, a missing key is an error unless the
\* field is an Option or has #[serde(default)], which give None) or a
\* sequence by position
from_value(T, v) ==
    LET fs == Fields(T)
        missing(f) ==
            IF SerdeDefault(T, f) \/ FieldType(T, f) = "Option<String>"
            THEN Null ELSE Err
        byName == [f \in FieldSet(T) |->
                     IF f \in Keys(v)
                     THEN field_from_value(FieldType(T, f), v.m[f])
                     ELSE missing(f)]
        byPos == [f \in FieldSet(T) |->
                    LET i == CHOOSE j \in 1..Len(fs) : fs[j] = f
                    IN IF i <= Len(v.q)
                       THEN field_from_value(FieldType(T, f), v.q[i])
                       ELSE IF SerdeDefault(T, f) THEN Null ELSE Err]
    IN CASE v.t = "obj" ->
              IF \E f \in FieldSet(T) : byName[f] = Err THEN Err
              ELSE Obj(byName)
         [] v.t = "seq" ->
              IF Len(v.q) > Len(fs) THEN Err
              ELSE IF \E f \in FieldSet(T) : byPos[f] = Err THEN Err
              ELSE Obj(byPos)
         [] OTHER -> Err

\* the values of each type within the bounds
IntValues(T) == {Default(T).m["value"]} \cup {Num(i) : i \in 0..MaxNum}
NameValues(T) ==
    IF T = "TestSettings" THEN {Str("default"), Str("modified")}
    ELSE {Str("default")}
Instances(T) ==
    IF T = "TestSettings"
    THEN {Obj([value |-> v, name |-> n]) :
             v \in IntValues(T), n \in NameValues(T)}
    ELSE {Obj([value |-> v, name |-> n, new_field |-> o]) :
             v \in IntValues(T), n \in NameValues(T),
             o \in {Null, Str("new"), Str("migrated")}}

(***************************************************************************)
(* semver::Version, as <<major, minor, patch>>                             *)
(***************************************************************************)
\* semver::Version::parse(s).ok()
VersionParse(str) ==
    CASE str = "1.0.0" -> <<1, 0, 0>>
      [] str = "2.0.0" -> <<2, 0, 0>>
      [] OTHER -> None
\* Ord for semver::Version
VersionLess(x, y) ==
    \/ x[1] < y[1]
    \/ x[1] = y[1] /\ x[2] < y[2]
    \/ x[1] = y[1] /\ x[2] = y[2] /\ x[3] < y[3]

\* a migration of MigratableSettings that ignores the versions
migrate_ungated(T, file_version, target_version, data) ==
    IF T = "MigratableSettings" /\ IsObj(data) /\ "new_field" \notin Keys(data)
    THEN [data |-> Obj(("new_field" :> Str("migrated")) @@ data.m),
          changed |-> TRUE]
    ELSE [data |-> data, changed |-> FALSE]

\* Settings::migrate: the default implementation for TestSettings, the
\* override of MigratableSettings: Ok((data, changed)).  FailingSettings
\* is MigratableSettings with an override that uses the Err the signature
\* allows: it refuses data without a recorded version.
migrate(T, file_version, target_version, data) ==
    IF T = "FailingSettings" /\ file_version = None THEN Err
    ELSE
    IF /\ T = "MigratableSettings"
       /\ file_version # None
       /\ VersionLess(file_version, <<2, 0, 0>>)
       /\ ~VersionLess(target_version, <<2, 0, 0>>)
       /\ IsObj(data)
       /\ "new_field" \notin Keys(data)
    THEN [data |-> Obj(("new_field" :> Str("migrated")) @@ data.m),
          changed |-> TRUE]
    ELSE [data |-> data, changed |-> FALSE]

(***************************************************************************)
(* storage.rs: Storage                                                     *)
(***************************************************************************)
\* SerializationFormat::extension
extension(format) ==
    CASE format = "Json" -> "json"
      [] format = "Binary" -> ""

\* Storage::new(name, format).with_version(v).with_base_path(p); version is
\* an Option<String>
Storage(name, format, version, path) ==
    [format |-> format, base_path |-> path, filename |-> name,
     version |-> version]

\* Storage::get_path
get_path(st) ==
    st.base_path \o "/" \o st.filename \o "." \o extension(st.format)

\* The bytes of a file: the pretty-printed JSON text of a root value, or
\* bytes that are not JSON.
JsonText(root) == [fmt |-> "json", root |-> root]
Garbage == [fmt |-> "garbage"]
\* serde_json::from_slice
json_from_slice(content) ==
    IF content.fmt = "json" THEN content.root ELSE Err

\* bincode::serde::encode_into_slice of a root value
BincodeBytes(root) == [fmt |-> "bincode", root |-> root]
\* bincode::serde::decode_from_slice::<Value>: Value's Deserialize asks for
\* deserialize_any, which bincode does not support, whatever the bytes
bincode_decode_from_slice(content) == Err

\* the entries of an object other than key k (Map::remove)
Without(m, k) == [x \in DOMAIN m \ {k} |-> m[x]]

\* a load_all_with_versions that takes _versions out of the map only when
\* it is an object
load_all_with_versions_object_only(st, dsk) ==
    LET path == get_path(st) IN
    IF path \notin DOMAIN dsk
    THEN [settings |-> EmptyMap, versions |-> EmptyMap]
    ELSE LET root == IF st.format = "Json"
                     THEN json_from_slice(dsk[path])
                     ELSE bincode_decode_from_slice(dsk[path]) IN
         IF root = Err THEN Err
         ELSE IF IsObj(root)
         THEN IF "_versions" \in Keys(root) /\ IsObj(root.m["_versions"])
              THEN [settings |-> Without(root.m, "_versions"),
                    versions |-> root.m["_versions"].m]
              ELSE [settings |-> root.m, versions |-> EmptyMap]
         ELSE [settings |-> EmptyMap, versions |-> EmptyMap]

\* Storage::load_all_with_versions: Ok((settings, versions)) or Err
load_all_with_versions(st, dsk) ==
    LET path == get_path(st) IN
    IF path \notin DOMAIN dsk
    THEN [settings |-> EmptyMap, versions |-> EmptyMap]
    ELSE LET root == IF st.format = "Json"
                     THEN json_from_slice(dsk[path])
                     ELSE bincode_decode_from_slice(dsk[path]) IN
         IF root = Err THEN Err
         ELSE IF IsObj(root)
         THEN [settings |-> Without(root.m, "_versions"),
               versions |->
                  IF "_versions" \in Keys(root) /\ IsObj(root.m["_versions"])
                  THEN root.m["_versions"].m ELSE EmptyMap]
         ELSE [settings |-> EmptyMap, versions |-> EmptyMap]

\* a save_all_with_versions that writes the root also when no section is
\* left
save_all_with_versions_keep(st, settings_map, versions, dsk) ==
    LET versions_obj == [k \in DOMAIN versions |-> Str(versions[k])]
        root == IF DOMAIN versions # {}
                THEN settings_map @@ ("_versions" :> Obj(versions_obj))
                ELSE settings_map
    IN (get_path(st) :> JsonText(Obj(root))) @@ dsk

\* Storage::save_all_with_versions: the disk after the call (the writes
\* succeed)
save_all_with_versions(st, settings_map, versions, dsk) ==
    LET path == get_path(st)
        versions_obj == [k \in DOMAIN versions |-> Str(versions[k])]
        root == IF DOMAIN versions # {}
                THEN settings_map @@ ("_versions" :> Obj(versions_obj))
                ELSE settings_map
        content == IF st.format = "Json" THEN JsonText(Obj(root))
                   ELSE BincodeBytes(Obj(root))
    IN IF DOMAIN settings_map = {}
       THEN Without(dsk, path)
       ELSE (path :> content) @@ dsk

\* Storage::save_all: save_all_with_versions with no versions
save_all(st, settings_map, dsk) ==
    save_all_with_versions(st, settings_map, EmptyMap, dsk)

\* Storage::load_all: Ok(settings) or Err
load_all(st, dsk) ==
    LET res == load_all_with_versions(st, dsk)
    IN IF res = Err THEN Err ELSE res.settings

\* Storage::load::<T>(type_key): Ok(T) or Err
storage_load(T, st, type_key, dsk) ==
    LET all_settings == load_all(st, dsk)
    IN IF all_settings = Err THEN Err
       ELSE IF type_key \in DOMAIN all_settings
       THEN from_value(T, all_settings[type_key])
       ELSE Default(T)

\* Storage::delete
storage_delete(st, dsk) == Without(dsk, get_path(st))

\* storage.rs has its own copies of the delta engine
RECURSIVE storage_compute_value_delta(_, _)
storage_compute_value_delta(current, default) ==
    IF IsObj(current) /\ IsObj(default)
    THEN LET nested(k) ==
                 storage_compute_value_delta(current.m[k], default.m[k])
             kept == {k \in Keys(current) :
                         IF k \in Keys(default)
                         THEN current.m[k] # default.m[k] /\ nested(k) # None
                         ELSE TRUE}
             delta_map == [k \in kept |->
                             IF k \in Keys(default) THEN nested(k)
                             ELSE current.m[k]]
         IN IF kept = {} THEN None ELSE Obj(delta_map)
    ELSE IF current # default THEN current ELSE None

RECURSIVE storage_merge_values(_, _)
storage_merge_values(target, source) ==
    IF IsObj(target) /\ IsObj(source)
    THEN Obj([k \in Keys(target) \cup Keys(source) |->
                IF k \in Keys(source)
                THEN IF k \in Keys(target)
                     THEN storage_merge_values(target.m[k], source.m[k])
                     ELSE source.m[k]
                ELSE target.m[k]])
    ELSE source

\* storage::compute_delta::<T>(settings)
storage_compute_delta(T, settings) ==
    IF settings = Default(T) THEN None
    ELSE storage_compute_value_delta(settings, Default(T))

\* a merge_with_defaults that recovers field by field: a field that does
\* not deserialise takes its default
storage_merge_with_defaults_partial(T, delta) ==
    IF delta = None THEN Default(T)
    ELSE LET m == storage_merge_values(Default(T), delta)
         IN IF ~IsObj(m) THEN Default(T)
            ELSE Obj([f \in FieldSet(T) |->
                        IF f \in Keys(m)
                           /\ field_from_value(FieldType(T, f), m.m[f]) # Err
                        THEN m.m[f] ELSE Default(T).m[f]])

\* storage::merge_with_defaults::<T>(delta): Ok(T) or Err
storage_merge_with_defaults(T, delta) ==
    IF delta = None THEN Default(T)
    ELSE from_value(T, storage_merge_values(Default(T), delta))

\* get_type_key::<T>()
get_type_key(T) == SECTION(T)

(***************************************************************************)
(* plugin.rs: the plugin and the App it is added to.                       *)
(*   disk          path -> bytes of the files that exist                   *)
(*   pc            "off" (no App) or "running"                             *)
(*   storage       the Storage of the current (or last) plugin instance    *)
(*   live          the resource of each registered type                    *)
(*   changed/added what is_changed()/is_added() report to the save system  *)
(*                 of each type                                            *)
(*   settings_map, versions    the maps of SettingsManager                 *)
(*   pending       the save systems still to run in the current tick       *)
(*   saving        for each type, whether its save system has computed its *)
(*                 delta and waits for the lock of the settings map, and   *)
(*                 the delta it computed                                   *)
(* History used by the properties:                                         *)
(*   lastAct       the last step taken; for a save, `again` tells that it  *)
(*                 saved defaults right after a save of defaults of the    *)
(*                 same type                                               *)
(*   migrateLog    the arguments migrate got for each type in the load     *)
(*                 just made                                               *)
(*   autosaved     the value of each type at its last auto-save in this App*)
(*   persisted     autosaved of the previous App, in the state a load by   *)
(*                 an App of the same configuration has just produced      *)
(*   unsaved       the resource was changed and not auto-saved since       *)
(*   fileAtLoad    the file existed when this App loaded                   *)
(***************************************************************************)
VARIABLES disk, pc, storage, live, changed, added, settings_map, versions,
          pending, saving, lastAct, migrateLog, autosaved, persisted,
          unsaved, fileAtLoad

pvars == <<disk, pc, storage, live, changed, added, settings_map, versions,
           pending, saving, lastAct, migrateLog, autosaved, persisted,
           unsaved, fileAtLoad>>

\* SettingsPlugin::new("TestSettings").format(f).with_base_path("settings")
PluginName == "TestSettings"
BasePath == "settings"
\* .version(v)
PluginVersions == {"1.0.0", "2.0.0"}
\* .format(f)
PluginStorage(f, v) == Storage(PluginName, f, Str(v), BasePath)
PluginFormats == {"Json", "Binary"}
\* the stores of the plugin in the formats fs
PluginConfigs(fs) ==
    {PluginStorage(f, v) : f \in fs, v \in PluginVersions}
\* the file of the store in the Json and in the Binary format
StorePath == get_path(PluginStorage("Json", "1.0.0"))
BinaryStorePath == get_path(PluginStorage("Binary", "1.0.0"))

\* a load_and_insert that gives up the stored delta when migrate fails
load_and_insert_strict(T, st, dsk) ==
    LET type_key == get_type_key(T)
        res == load_all_with_versions(st, dsk)
        loaded == IF res = Err
                  THEN [settings |-> EmptyMap, versions |-> EmptyMap]
                  ELSE res
        delta == IF type_key \in DOMAIN loaded.settings
                 THEN loaded.settings[type_key] ELSE None
        file_version ==
            IF type_key \in DOMAIN loaded.versions
               /\ loaded.versions[type_key].t = "str"
            THEN VersionParse(loaded.versions[type_key].s)
            ELSE None
        parsed_target == IF st.version = None THEN None
                         ELSE VersionParse(st.version.s)
        target_version == IF parsed_target = None THEN <<0, 0, 0>>
                          ELSE parsed_target
        migration == migrate(T, file_version, target_version, delta)
        merged == IF delta = None \/ migration = Err THEN Default(T)
                  ELSE storage_merge_with_defaults(T, migration.data)
    IN [settings |-> IF merged = Err THEN Default(T) ELSE merged,
        migrate |-> IF delta # None
                    THEN [file_version |-> file_version,
                          target_version |-> target_version,
                          data |-> delta]
                    ELSE None,
        calls |-> IF delta # None THEN 1 ELSE 0]

\* a load_and_insert that migrates every section, stored or not: a section
\* without a stored delta is migrated from the empty object
load_and_insert_eager(T, st, dsk) ==
    LET type_key == get_type_key(T)
        res == load_all_with_versions(st, dsk)
        loaded == IF res = Err
                  THEN [settings |-> EmptyMap, versions |-> EmptyMap]
                  ELSE res
        delta == IF type_key \in DOMAIN loaded.settings
                 THEN loaded.settings[type_key] ELSE Obj(EmptyMap)
        file_version ==
            IF type_key \in DOMAIN loaded.versions
               /\ loaded.versions[type_key].t = "str"
            THEN VersionParse(loaded.versions[type_key].s)
            ELSE None
        parsed_target == IF st.version = None THEN None
                         ELSE VersionParse(st.version.s)
        target_version == IF parsed_target = None THEN <<0, 0, 0>>
                          ELSE parsed_target
        merged == storage_merge_with_defaults(
                      T, migrate_ungated(T, file_version, target_version,
                                         delta).data)
    IN [settings |-> IF merged = Err THEN Default(T) ELSE merged,
        migrate |-> [file_version |-> file_version,
                     target_version |-> target_version,
                     data |-> delta],
        calls |-> 1]

\* TypedSettingsHandler::<T>::load_and_insert: the resource inserted, the
\* call of migrate made and the number of calls of migrate
load_and_insert(T, st, dsk) ==
    LET type_key == get_type_key(T)
        res == load_all_with_versions(st, dsk)
        loaded == IF res = Err
                  THEN [settings |-> EmptyMap, versions |-> EmptyMap]
                  ELSE res
        delta == IF type_key \in DOMAIN loaded.settings
                 THEN loaded.settings[type_key] ELSE None
        file_version ==
            IF type_key \in DOMAIN loaded.versions
               /\ loaded.versions[type_key].t = "str"
            THEN VersionParse(loaded.versions[type_key].s)
            ELSE None
        parsed_target == IF st.version = None THEN None
                         ELSE VersionParse(st.version.s)
        target_version == IF parsed_target = None THEN <<0, 0, 0>>
                          ELSE parsed_target
        migration == migrate(T, file_version, target_version, delta)
        migrated_delta ==
            IF delta # None
            THEN IF migration = Err THEN delta ELSE migration.data
            ELSE None
        merged == storage_merge_with_defaults(T, migrated_delta)
    IN [settings |-> IF merged = Err THEN Default(T) ELSE merged,
        migrate |-> IF delta # None
                    THEN [file_version |-> file_version,
                          target_version |-> target_version,
                          data |-> delta]
                    ELSE None,
        calls |-> IF delta # None THEN 1 ELSE 0]

Act(op, T) == [op |-> op, T |-> T, again |-> FALSE]
NoAct == Act("init", "-")
AllNone == [T \in Types |-> None]
AllFalse == [T \in Types |-> FALSE]
\* a save system that is not between its check and its critical section
NotSaving == [t |-> "idle"]
\* a save system that holds the delta of line 299 and waits at line 302
Saving(delta) == [t |-> "saving", delta |-> delta]
NoneSaving == [T \in Types |-> NotSaving]

\* the files an App may find when it starts for the first time
FileSections ==
    LET ts == {None, Obj([value |-> Num(0)]),
               Obj([value |-> Str("x"), name |-> Str("modified")]),
               Obj([name |-> Str("modified")])}
        ms == {None, Obj([value |-> Num(0)]),
               Obj([value |-> Num(0), new_field |-> Null]),
               Obj([name |-> Num(0)]), Num(0)}
    IN {[testsettings |-> x, migratable |-> y] : x \in ts, y \in ms}
FileVersions ==
    {None, Num(0),
     Obj([testsettings |-> Str("1.0.0"), migratable |-> Str("1.0.0")]),
     Obj([testsettings |-> Str("2.0.0"), migratable |-> Str("2.0.0")]),
     Obj([migratable |-> Str("one")]), Obj([migratable |-> Num(1)])}
FileRoot(secs, vers) ==
    LET ks == {k \in DOMAIN secs : secs[k] # None}
               \cup (IF vers = None THEN {} ELSE {"_versions"})
    IN Obj([k \in ks |-> IF k = "_versions" THEN vers ELSE secs[k]])
InitialDisks ==
    {EmptyMap, StorePath :> Garbage, StorePath :> JsonText(Num(0))}
    \cup {StorePath :> JsonText(FileRoot(secs, vers)) :
             secs \in FileSections, vers \in FileVersions}
\* the files an App of either format may find
FormatDisks ==
    {EmptyMap, BinaryStorePath :> Garbage,
     BinaryStorePath :> BincodeBytes(FileRoot(
         [testsettings |-> Obj([value |-> Num(0)]), migratable |-> None],
         Obj([testsettings |-> Str("1.0.0")]))),
     StorePath :> JsonText(FileRoot(
         [testsettings |-> Obj([value |-> Num(0)]), migratable |-> None],
         Obj([testsettings |-> Str("1.0.0")])))}

\* the state before the first App, on the disks ds
PluginInitOn(ds) ==
    /\ disk \in ds
    /\ pc = "off"
    /\ storage = None
    /\ live = AllNone
    /\ changed = AllFalse
    /\ added = AllFalse
    /\ settings_map = EmptyMap
    /\ versions = EmptyMap
    /\ pending = {}
    /\ saving = NoneSaving
    /\ lastAct = NoAct
    /\ migrateLog = AllNone
    /\ autosaved = AllNone
    /\ persisted = AllNone
    /\ unsaved = AllFalse
    /\ fileAtLoad = FALSE
PluginInit == PluginInitOn(InitialDisks)
PluginFormatsInit == PluginInitOn(FormatDisks)

\* App::new().add_plugins(SettingsPlugin...): Plugin::build, for a plugin
\* configured with one of the stores configs
Build(configs) ==
    /\ pc = "off"
    /\ \E st \in configs :
         /\ storage' = st
         /\ fileAtLoad' = (get_path(st) \in DOMAIN disk)
         /\ live' = [T \in Types |-> load_and_insert(T, st, disk).settings]
         /\ migrateLog' = [T \in Types |-> load_and_insert(T, st, disk).migrate]
         /\ versions' = IF st.version = None THEN EmptyMap
                        ELSE [k \in {get_type_key(T) : T \in Types} |->
                                st.version.s]
         /\ persisted' = IF storage = st THEN autosaved ELSE AllNone
    /\ settings_map' = EmptyMap
    /\ pc' = "running"
    /\ changed' = [T \in Types |-> TRUE]
    /\ added' = [T \in Types |-> TRUE]
    /\ pending' = {}
    /\ saving' = NoneSaving
    /\ lastAct' = Act("build", "-")
    /\ autosaved' = AllNone
    /\ unsaved' = AllFalse
    /\ UNCHANGED disk

\* a system or the host writes the resource through ResMut<T> between
\* two runs of the PostUpdate schedule
Mutate(T, v) ==
    /\ pc = "running"
    /\ pending = {}
    /\ saving = NoneSaving
    /\ live' = [live EXCEPT ![T] = v]
    /\ changed' = [changed EXCEPT ![T] = TRUE]
    /\ unsaved' = [unsaved EXCEPT ![T] = TRUE]
    /\ lastAct' = Act("mutate", T)
    /\ migrateLog' = AllNone
    /\ persisted' = AllNone
    /\ UNCHANGED <<disk, pc, storage, added, settings_map, versions, pending,
                   saving, autosaved, fileAtLoad>>

\* app.update() reaches PostUpdate: every save system is to run once
BeginTick ==
    /\ pc = "running"
    /\ pending = {}
    /\ saving = NoneSaving
    /\ pending' = Types
    /\ lastAct' = Act("tick", "-")
    /\ migrateLog' = AllNone
    /\ persisted' = AllNone
    /\ UNCHANGED <<disk, pc, storage, live, changed, added, settings_map,
                   versions, saving, autosaved, unsaved, fileAtLoad>>

\* a guard that forgets is_added()
should_save_changed_only(is_changed, is_added) == is_changed

\* if settings.is_changed() && !settings.is_added()
should_save(is_changed, is_added) == is_changed /\ ~is_added

\* save_settings_on_change::<T> up to the lock of the settings map: the
\* check of the change flags and compute_delta.  A system that is not to
\* save ends here; one that is to save waits for the lock with its delta.
SaveCheck(T) ==
    /\ pc = "running"
    /\ T \in pending
    /\ pending' = pending \ {T}
    /\ IF should_save(changed[T], added[T])
       THEN /\ saving' = [saving EXCEPT
                            ![T] = Saving(storage_compute_delta(T, live[T]))]
            /\ lastAct' = Act("check", T)
            /\ UNCHANGED <<changed, added>>
       ELSE /\ changed' = [changed EXCEPT ![T] = FALSE]
            /\ added' = [added EXCEPT ![T] = FALSE]
            /\ lastAct' = Act("skip", T)
            /\ UNCHANGED saving
    /\ migrateLog' = AllNone
    /\ persisted' = AllNone
    /\ UNCHANGED <<pc, storage, live, versions, fileAtLoad, settings_map,
                   disk, autosaved, unsaved>>

\* save_settings_on_change::<T> from the lock of the settings map to the
\* drop of the guards: the map is updated and the file is written while
\* the lock is held, so no other save system acts in between
SaveLocked(T) ==
    /\ pc = "running"
    /\ saving[T] # NotSaving
    /\ saving' = [saving EXCEPT ![T] = NotSaving]
    /\ changed' = [changed EXCEPT ![T] = FALSE]
    /\ added' = [added EXCEPT ![T] = FALSE]
    /\ LET type_key == get_type_key(T)
           delta == saving[T].delta
           map == IF delta # None
                  THEN (type_key :> delta) @@ settings_map
                  ELSE Without(settings_map, type_key)
       IN /\ settings_map' = map
          /\ disk' = save_all_with_versions(storage, map, versions, disk)
          /\ lastAct' = [op |-> "save", T |-> T,
                         again |-> /\ live[T] = Default(T)
                                   /\ autosaved[T] = Default(T)]
          /\ autosaved' = [autosaved EXCEPT ![T] = live[T]]
          /\ unsaved' = [unsaved EXCEPT ![T] = FALSE]
    /\ migrateLog' = AllNone
    /\ persisted' = AllNone
    /\ UNCHANGED <<pc, storage, live, versions, fileAtLoad, pending>>

\* save_settings_on_change::<T>: one of its two steps
SaveSettingsOnChange(T) == SaveCheck(T) \/ SaveLocked(T)

\* the App is dropped; the files stay
AppExit ==
    /\ pc = "running"
    /\ pending = {}
    /\ saving = NoneSaving
    /\ pc' = "off"
    /\ live' = AllNone
    /\ changed' = AllFalse
    /\ added' = AllFalse
    /\ settings_map' = EmptyMap
    /\ versions' = EmptyMap
    /\ migrateLog' = AllNone
    /\ unsaved' = AllFalse
    /\ fileAtLoad' = FALSE
    /\ lastAct' = Act("exit", "-")
    /\ persisted' = AllNone
    /\ UNCHANGED <<disk, storage, pending, saving, autosaved>>

MutateAny == \E T \in Types : \E v \in Instances(T) : Mutate(T, v)

\* the values written in the runs over both formats: the defaults and the
\* values with value = 0
FormatInstances(T) ==
    {v \in Instances(T) : v = Default(T) \/ v.m["value"] = Num(0)}
MutateFormats ==
    \E T \in Types : \E v \in FormatInstances(T) : Mutate(T, v)

RunSaveSystem == \E T \in Types : SaveSettingsOnChange(T)

(***************************************************************************)
(* Specification SpecStorage: a Storage used directly (save_all, load,     *)
(* delete), in the Json and in the Binary format.                          *)
(*   sStorage   the Storage                                                *)
(*   sDisk      path -> bytes of the files that exist                      *)
(*   sMap       the settings map of the last save_all or                   *)
(*              save_all_with_versions                                     *)
(*   sType      the type of the last load                                  *)
(*   sResult    what the last load returned                                *)
(*   sPc        "ready", "saved", "loaded" or "deleted"                    *)
(***************************************************************************)
VARIABLES sStorage, sDisk, sMap, sType, sResult, sPc

svars == <<sStorage, sDisk, sMap, sType, sResult, sPc>>

Formats == {"Json", "Binary"}

\* the deltas of a section given to save_all: some fields of an instance
SectionDeltas(T) ==
    {Obj([f \in fs |-> v.m[f]]) :
        fs \in SUBSET FieldSet(T) \ {{}}, v \in Instances(T)}
\* the settings maps given to save_all
SettingsMaps ==
    LET ts == {None} \cup SectionDeltas("TestSettings")
        ms == {None, Obj([name |-> Str("default")]),
               Obj([value |-> Num(MaxNum), new_field |-> Null]),
               Obj([value |-> Num(0), name |-> Str("default"),
                    new_field |-> Str("migrated")])}
        sec(x, y) == [testsettings |-> x, migratable |-> y]
    IN {[k \in {j \in DOMAIN sec(x, y) : sec(x, y)[j] # None}
            |-> sec(x, y)[k]] : x \in ts, y \in ms}

StorageInit ==
    /\ sStorage \in {Storage(PluginName, f, Str("1.0.0"), BasePath) :
                        f \in Formats}
    /\ sDisk \in {EmptyMap, get_path(sStorage) :> Garbage}
    /\ sMap = EmptyMap
    /\ sType = "-"
    /\ sResult = None
    /\ sPc = "ready"

\* storage.save_all_with_versions(&map, &versions)
StorageSaveAllWithVersions ==
    \E map \in SettingsMaps :
        LET vs == [k \in DOMAIN map |-> sStorage.version.s] IN
        /\ sDisk' = save_all_with_versions(sStorage, map, vs, sDisk)
        /\ sMap' = map
        /\ sPc' = "saved"
        /\ sType' = "-"
        /\ sResult' = None
        /\ UNCHANGED sStorage

\* storage.save_all(&map)
StorageSaveAll ==
    \E map \in SettingsMaps :
        /\ sDisk' = save_all(sStorage, map, sDisk)
        /\ sMap' = map
        /\ sPc' = "saved"
        /\ sType' = "-"
        /\ sResult' = None
        /\ UNCHANGED sStorage

\* storage.load::<T>(&get_type_key::<T>())
StorageLoad ==
    \E T \in Types :
        /\ sPc \in {"ready", "saved", "deleted"}
        /\ sResult' = storage_load(T, sStorage, get_type_key(T), sDisk)
        /\ sType' = T
        /\ sPc' = "loaded"
        /\ UNCHANGED <<sStorage, sDisk, sMap>>

\* storage.delete()
StorageDelete ==
    /\ sPc = "saved"
    /\ sDisk' = storage_delete(sStorage, sDisk)
    /\ sMap' = EmptyMap
    /\ sPc' = "deleted"
    /\ sType' = "-"
    /\ sResult' = None
    /\ UNCHANGED sStorage

(***************************************************************************)
(* manager.rs: the codecs.  The bytes of a file are the format they were   *)
(* written in together with the value written.                             *)
(***************************************************************************)
\* Err(ManagerError::..)
PathError == [t |-> "err", kind |-> "Path"]
SerializationError == [t |-> "err", kind |-> "Serialization"]
UnsupportedFormat == [t |-> "err", kind |-> "UnsupportedFormat"]
IoError == [t |-> "err", kind |-> "Io"]
IsErr(r) == "t" \in DOMAIN r /\ r.t = "err"

\* toml::to_string_pretty and ron::ser::to_string_pretty of a value
TomlText(root) == [fmt |-> "toml", root |-> root]
RonText(root) == [fmt |-> "ron", root |-> root]

\* a value with a null in it: serde_json's Null is serialised as a unit,
\* which the TOML serialiser refuses
RECURSIVE HasNull(_)
HasNull(v) ==
    CASE v.t = "null" -> TRUE
      [] v.t = "obj" -> \E k \in Keys(v) : HasNull(v.m[k])
      [] v.t = "seq" -> \E i \in 1..Len(v.q) : HasNull(v.q[i])
      [] OTHER -> FALSE

\* toml::to_string_pretty: the root of a TOML document is a table
toml_to_string_pretty(value) ==
    IF IsObj(value) /\ ~HasNull(value) THEN TomlText(value) ELSE Err

\* the parsers: text of the format parses to the value written; other
\* bytes (Garbage) do not parse
toml_from_str(content) == IF content.fmt = "toml" THEN content.root ELSE Err
ron_from_str(content) == IF content.fmt = "ron" THEN content.root ELSE Err

\* an encode_content that knows json only and writes every other format
\* as json
encode_content_json_only(value, format) == JsonText(value)

\* encode_content: Ok(bytes) or Err
encode_content(value, format) ==
    CASE format = "json" -> JsonText(value)
      [] format = "toml" ->
            IF toml_to_string_pretty(value) = Err THEN SerializationError
            ELSE toml_to_string_pretty(value)
      [] format = "ron" -> RonText(value)
      [] format = "bin" -> BincodeBytes(value)
      [] OTHER -> UnsupportedFormat

\* decode_content: Ok(Value) or Err
decode_content(content, format) ==
    CASE format = "json" ->
            IF json_from_slice(content) = Err THEN SerializationError
            ELSE json_from_slice(content)
      [] format = "toml" ->
            IF toml_from_str(content) = Err THEN SerializationError
            ELSE toml_from_str(content)
      [] format = "ron" ->
            IF ron_from_str(content) = Err THEN SerializationError
            ELSE ron_from_str(content)
      [] format = "bin" ->
            IF bincode_decode_from_slice(content) = Err
            THEN SerializationError
            ELSE bincode_decode_from_slice(content)
      [] OTHER -> UnsupportedFormat

(***************************************************************************)
(* Specification SpecCodec: a value is encoded and the bytes decoded in    *)
(* the same format.                                                        *)
(***************************************************************************)
VARIABLES cValue, cFormat, cBytes, cDecoded, cPc

cvars == <<cValue, cFormat, cBytes, cDecoded, cPc>>

SupportedFormats == {"json", "toml", "ron", "bin"}
CodecFormats == SupportedFormats \cup {"yaml"}

CodecInit ==
    /\ cValue \in Trees
    /\ cFormat \in CodecFormats
    /\ cBytes = None
    /\ cDecoded = None
    /\ cPc = "input"

\* let content = encode_content(&root, ext)
DoEncode ==
    /\ cPc = "input"
    /\ cBytes' = encode_content(cValue, cFormat)
    /\ cPc' = "encoded"
    /\ UNCHANGED <<cValue, cFormat, cDecoded>>

\* let value = decode_content(&content, ext), of bytes that were encoded
DoDecode ==
    /\ cPc = "encoded"
    /\ ~IsErr(cBytes)
    /\ cDecoded' = decode_content(cBytes, cFormat)
    /\ cPc' = "decoded"
    /\ UNCHANGED <<cValue, cFormat, cBytes>>

(***************************************************************************)
(* manager.rs: a settings group with a path parameter, after SaveGame of   *)
(* examples/demo.rs:                                                       *)
(*     #[settings(file = "saves/{slot_id}/game.<ext>")]                    *)
(*     struct SaveGame { slot_id: <decl>, inventory: InventoryData }       *)
(*     struct InventoryData { gold: u32, items: Vec<String> }              *)
(* The declaration of slot_id is String, Option<String> (None is written   *)
(* as null) or Option<String> with serde(default, skip_serializing_if =    *)
(* "Option::is_none") (None is not written).  A resource is represented by *)
(* the tree serde_json::to_value gives for it.                             *)
(***************************************************************************)
Ok == [t |-> "ok"]
Absent == [t |-> "absent"]

\* T::path_params()
path_params == {"slot_id"}

SlotDecls == {"String", "Option", "OptionSkip"}
SlotStrings == {"", " ", "slot_1", "slot_2"}
\* the extension of the template; "" is a template without extension
Extensions == {"json", "toml", "ron", "bin", "yaml", ""}

\* str::trim on the strings of SlotStrings
trim(str) == IF str = " " THEN "" ELSE str

\* serde_json::to_value of a SaveGame
group_to_value(decl, slot, inventory) ==
    IF decl = "OptionSkip" /\ slot = Null
    THEN Obj([inventory |-> inventory])
    ELSE Obj([slot_id |-> slot, inventory |-> inventory])

\* InventoryData::default(), SaveGame::default() (derived)
InventoryDefault == Obj([gold |-> Num(0), items |-> Arr(<<>>)])
GroupDefault(decl) ==
    group_to_value(decl, IF decl = "String" THEN Str("") ELSE Null,
                   InventoryDefault)

\* the values of the types within the bounds
Inventories ==
    {Obj([gold |-> Num(g), items |-> Arr(q)]) :
        g \in 0..MaxNum, q \in {<<>>, <<Str("x")>>}}
SlotValues(decl) ==
    {Str(x) : x \in SlotStrings} \cup (IF decl = "String" THEN {} ELSE {Null})
GroupInstances(decl) ==
    {group_to_value(decl, x, i) : x \in SlotValues(decl), i \in Inventories}

\* the value a derived Deserialize finds for a field: by name in an
\* object, by position in a sequence
FieldOf(v, name, pos) ==
    IF v.t = "obj"
    THEN IF name \in Keys(v) THEN v.m[name] ELSE Absent
    ELSE IF pos <= Len(v.q) THEN v.q[pos] ELSE Absent

\* serde_json::from_value::<InventoryData>
inventory_from_value(v) ==
    IF v.t \notin {"obj", "seq"} THEN Err
    ELSE IF v.t = "seq" /\ Len(v.q) > 2 THEN Err
    ELSE LET gold == FieldOf(v, "gold", 1)
             items == FieldOf(v, "items", 2)
         IN IF /\ gold.t = "num"
               /\ items.t = "seq"
               /\ \A i \in 1..Len(items.q) : items.q[i].t = "str"
            THEN Obj([gold |-> gold, items |-> items])
            ELSE Err

\* the slot_id field from what the input holds for it
slot_from_value(decl, x, in_seq) ==
    CASE x.t = "str" -> x
      [] x.t = "null" -> IF decl = "String" THEN Err ELSE Null
      [] x.t = "absent" ->
            IF decl = "OptionSkip" \/ (decl = "Option" /\ ~in_seq)
            THEN Null ELSE Err
      [] OTHER -> Err

\* serde_json::from_value::<SaveGame>: Ok(tree of the value) or Err
group_from_value(decl, v) ==
    IF v.t \notin {"obj", "seq"} THEN Err
    ELSE IF v.t = "seq" /\ Len(v.q) > 2 THEN Err
    ELSE LET slot == slot_from_value(decl, FieldOf(v, "slot_id", 1),
                                     v.t = "seq")
             inv_in == FieldOf(v, "inventory", 2)
             inventory == IF inv_in = Absent THEN Err
                          ELSE inventory_from_value(inv_in)
         IN IF slot = Err \/ inventory = Err THEN Err
            ELSE group_to_value(decl, slot, inventory)

\* a validation that only asks for the key
ensure_path_params_present_key_only(settings) ==
    IF path_params \subseteq Keys(settings) THEN Ok ELSE PathError

\* is_empty_path_value
is_empty_path_value(value) ==
    CASE value.t = "null" -> TRUE
      [] value.t = "str" -> trim(value.s) = ""
      [] OTHER -> FALSE

\* ensure_path_params_present: Ok(()) or Err(Path)
ensure_path_params_present(settings) ==
    IF path_params = {} THEN Ok
    ELSE IF ~IsObj(settings) THEN PathError
    ELSE IF \E param \in path_params :
               \/ param \notin Keys(settings)
               \/ is_empty_path_value(settings.m[param])
         THEN PathError
         ELSE Ok

\* what is at a path that is a directory: it exists, and fs::read,
\* fs::write and fs::remove_file fail on it
Directory == [fmt |-> "directory"]

\* a resolved path: the template with {slot_id} replaced by a text
ResolvedPath(text) == [t |-> "path", slot |-> text]
\* PathBuf of a resolved path, its parent, its extension
PathString(p, ext) ==
    "saves/" \o p.slot \o "/game" \o (IF ext = "" THEN "" ELSE "." \o ext)
ParentString(p) == "saves/" \o p.slot
path_extension(ext) == IF ext = "" THEN "json" ELSE ext

\* TypedPath::resolve (crate bevy_paths): the outcomes it may have.  With
\* a non-empty string in the field it gives the template with the field
\* substituted; what it does with a missing, null or blank field is not
\* fixed here: it fails, or substitutes what text there is.
resolve(settings) ==
    IF /\ "slot_id" \in Keys(settings)
       /\ settings.m["slot_id"].t = "str"
       /\ trim(settings.m["slot_id"].s) # ""
    THEN {ResolvedPath(settings.m["slot_id"].s)}
    ELSE {PathError,
          ResolvedPath(IF "slot_id" \in Keys(settings)
                          /\ settings.m["slot_id"].t = "str"
                       THEN settings.m["slot_id"].s ELSE "")}

\* a removal of the path parameters that removes nothing
strip_path_params_keep(delta) == delta

\* save_settings_logic, lines 98-113: the path parameters are removed from
\* the delta; an object left empty is no delta
strip_path_params(delta) ==
    IF delta = None THEN None
    ELSE IF IsObj(delta)
    THEN LET map == [k \in Keys(delta) \ path_params |-> delta.m[k]]
         IN IF DOMAIN map = {} THEN None ELSE Obj(map)
    ELSE delta

\* save_settings_logic after ensure_path_params_present passed and resolve
\* returned `resolved`: the result and the disk after the call
save_settings_logic(decl, ext, settings, resolved, files, dirs) ==
    IF IsErr(resolved)
    THEN [result |-> PathError, files |-> files, dirs |-> dirs]
    ELSE LET path == PathString(resolved, ext)
             delta == compute_delta(settings, GroupDefault(decl))
             value_to_save == strip_path_params(delta)
             content == encode_content(value_to_save, path_extension(ext))
             blocked == path \in DOMAIN files /\ files[path] = Directory
         IN IF value_to_save # None
            THEN IF IsErr(content)
                 THEN [result |-> content, files |-> files, dirs |-> dirs]
                 ELSE IF blocked
                 THEN [result |-> IoError, files |-> files,
                       dirs |-> dirs \cup {ParentString(resolved)}]
                 ELSE [result |-> Ok,
                       files |-> (path :> content) @@ files,
                       dirs |-> dirs \cup {ParentString(resolved)}]
            ELSE IF blocked
            THEN [result |-> IoError, files |-> files, dirs |-> dirs]
            ELSE [result |-> Ok, files |-> Without(files, path),
                  dirs |-> dirs]

\* a copy_params that copies nothing
copy_params_none(decl, source, target) == target

\* copy_params: the target after the call
copy_params(decl, source, target) ==
    IF path_params = {} THEN target
    ELSE LET present == path_params \cap Keys(source)
             target_val ==
                 Obj([k \in Keys(target) \cup present |->
                        IF k \in present THEN source.m[k] ELSE target.m[k]])
             applied == group_from_value(decl, target_val)
         IN IF present = {} THEN target
            ELSE IF applied = Err THEN target
            ELSE applied

\* delta::merge_with_defaults::<SaveGame>(Some(delta)): Ok(tree) or Err
group_merge_with_defaults(decl, delta) ==
    group_from_value(decl, merge_with_defaults(delta, GroupDefault(decl)))

\* a load_settings_logic that inserts the defaults, with the path
\* parameters kept, when the file cannot be read, decoded or merged
load_settings_logic_reset(decl, ext, current_resource, resolved, files) ==
    IF IsErr(resolved)
    THEN [result |-> PathError, resource |-> current_resource]
    ELSE LET path == PathString(resolved, ext)
             fallback == copy_params(decl, current_resource,
                                     GroupDefault(decl)) IN
         IF path \notin DOMAIN files
         THEN [result |-> Ok, resource |-> fallback]
         ELSE IF files[path] = Directory
         THEN [result |-> IoError, resource |-> fallback]
         ELSE LET delta_value ==
                      decode_content(files[path], path_extension(ext))
                  new_settings == group_merge_with_defaults(decl, delta_value)
              IN IF IsErr(delta_value)
                 THEN [result |-> delta_value, resource |-> fallback]
                 ELSE IF new_settings = Err
                 THEN [result |-> SerializationError, resource |-> fallback]
                 ELSE [result |-> Ok,
                       resource |-> copy_params(decl, current_resource,
                                                new_settings)]

\* load_settings_logic when resolve returned `resolved`: the result and
\* the resource after the call
load_settings_logic(decl, ext, current_resource, resolved, files) ==
    IF IsErr(resolved)
    THEN [result |-> PathError, resource |-> current_resource]
    ELSE LET path == PathString(resolved, ext) IN
         IF path \notin DOMAIN files
         THEN [result |-> Ok,
               resource |-> copy_params(decl, current_resource,
                                        GroupDefault(decl))]
         ELSE IF files[path] = Directory
         THEN [result |-> IoError, resource |-> current_resource]
         ELSE LET delta_value ==
                      decode_content(files[path], path_extension(ext))
                  new_settings == group_merge_with_defaults(decl, delta_value)
              IN IF IsErr(delta_value)
                 THEN [result |-> delta_value, resource |-> current_resource]
                 ELSE IF new_settings = Err
                 THEN [result |-> SerializationError,
                       resource |-> current_resource]
                 ELSE [result |-> Ok,
                       resource |-> copy_params(decl, current_resource,
                                                new_settings)]

(***************************************************************************)
(* Specification SpecManager: one settings group saved and loaded through  *)
(* save_settings_logic and load_settings_logic.                            *)
(*   mDecl, mExt   the declaration of slot_id, the template's extension    *)
(*   mRes          the resource                                            *)
(*   mFiles        path -> bytes of the files that exist                   *)
(*   mDirs         the directories that exist                              *)
(*   mOp, mResult  the last call and what it returned                      *)
(***************************************************************************)
VARIABLES mDecl, mExt, mRes, mFiles, mDirs, mOp, mResult

mvars == <<mDecl, mExt, mRes, mFiles, mDirs, mOp, mResult>>

\* what a file found at start may hold: written by an earlier run, edited
\* by hand (a stray slot_id, a wrong type, no object), or not text at all;
\* or a directory is where the file should be
FoundRoots ==
    {Obj([inventory |-> Obj([gold |-> Num(1)])]),
     Obj([slot_id |-> Str("slot_2"),
          inventory |-> Obj([items |-> Arr(<<Str("x")>>)])]),
     Obj([inventory |-> Obj([gold |-> Str("x")])]),
     Num(0)}
FoundContents(ext) ==
    {Garbage, Directory} \cup
    {encode_content(r, path_extension(ext)) : r \in
        {x \in FoundRoots : ~IsErr(encode_content(x, path_extension(ext)))}}
FoundFiles(ext) ==
    {EmptyMap} \cup
    {PathString(ResolvedPath("slot_1"), ext) :> c : c \in FoundContents(ext)}

ManagerInit ==
    /\ mDecl \in SlotDecls
    /\ mExt \in Extensions
    /\ mRes = GroupDefault(mDecl)
    /\ mFiles \in FoundFiles(mExt)
    /\ mDirs = IF mFiles = EmptyMap THEN {}
               ELSE {ParentString(ResolvedPath("slot_1"))}
    /\ mOp = "init"
    /\ mResult = None

\* a system writes the resource through ResMut<T>
SetResource ==
    \E v \in GroupInstances(mDecl) :
        /\ mRes' = v
        /\ mOp' = "set"
        /\ mResult' = None
        /\ UNCHANGED <<mDecl, mExt, mFiles, mDirs>>

\* commands.save_settings::<T>(): save_settings_logic
SaveSettings ==
    \E resolved \in IF ensure_path_params_present(mRes) = Ok
                     THEN resolve(mRes) ELSE {PathError} :
        LET r == save_settings_logic(mDecl, mExt, mRes, resolved, mFiles,
                                     mDirs) IN
        /\ mFiles' = r.files
        /\ mDirs' = r.dirs
        /\ mResult' = r.result
        /\ mOp' = "save"
        /\ UNCHANGED <<mDecl, mExt, mRes>>

\* commands.load_settings::<T>(): load_settings_logic
LoadSettings ==
    \E resolved \in resolve(mRes) :
        LET r == load_settings_logic(mDecl, mExt, mRes, resolved, mFiles) IN
        /\ mRes' = r.resource
        /\ mResult' = r.result
        /\ mOp' = "load"
        /\ UNCHANGED <<mDecl, mExt, mFiles, mDirs>>

(***************************************************************************)
(* Specification SpecLoad: one handler's load_and_insert on the files a    *)
(* plugin may find, for the two registered types and for FailingSettings.  *)
(*   lType      the type of the handler                                    *)
(*   lStorage   the Storage of the plugin                                  *)
(*   lDisk      path -> bytes of the files that exist                      *)
(*   lLive      the resource inserted                                      *)
(*   lCall      the arguments migrate got, None without a call             *)
(*   lPc        "off" or "loaded"                                          *)
(***************************************************************************)
VARIABLES lType, lStorage, lDisk, lLive, lCall, lPc

lvars == <<lType, lStorage, lDisk, lLive, lCall, lPc>>

LoadTypes == Types \cup {"FailingSettings"}

\* what the file may hold under the section's key, and as _versions
LoadDeltas ==
    {None, Obj([value |-> Num(0)]),
     Obj([value |-> Num(0), new_field |-> Null]),
     Obj([name |-> Num(0)]), Num(0)}
LoadVersions(T) ==
    {None, Num(0), Obj(EmptyMap)}
    \cup {Obj(SECTION(T) :> x) :
             x \in {Str("1.0.0"), Str("2.0.0"), Str("one"), Num(1)}}
LoadDisks(T) ==
    {EmptyMap, StorePath :> Garbage, StorePath :> JsonText(Num(0))}
    \cup {StorePath :> JsonText(FileRoot(SECTION(T) :> d, vers)) :
             d \in LoadDeltas, vers \in LoadVersions(T)}

LoadInit ==
    /\ lType \in LoadTypes
    /\ lStorage \in {PluginStorage("Json", v) : v \in PluginVersions}
    /\ lDisk \in LoadDisks(lType)
    /\ lLive = None
    /\ lCall = None
    /\ lPc = "off"

\* handler.load_and_insert(app, &storage, &mut versions)
LoadAndInsert ==
    /\ lPc = "off"
    /\ lLive' = load_and_insert(lType, lStorage, lDisk).settings
    /\ lCall' = load_and_insert(lType, lStorage, lDisk).migrate
    /\ lPc' = "loaded"
    /\ UNCHANGED <<lType, lStorage, lDisk>>

(***************************************************************************)
(* bevy_settings_derive: extract_params.  A template and a parameter name  *)
(* are sequences of characters.                                            *)
(***************************************************************************)
MaxLen == 6
TemplateChars == {"{", "}", "a", "b", "/"}

RECURSIVE SeqsUpTo(_)
\* the sequences over TemplateChars of length at most n
SeqsUpTo(n) ==
    IF n = 0 THEN {<<>>}
    ELSE SeqsUpTo(n - 1) \cup
         {Append(q, c) : q \in {x \in SeqsUpTo(n - 1) : Len(x) = n - 1},
                         c \in TemplateChars}
Templates == SeqsUpTo(MaxLen)

\* the position of the first "}" after position i, Len + 1 when the inner
\* loop reaches the end of the template
ClosingAfter(template, i) ==
    LET js == {j \in (i + 1)..Len(template) : template[j] = "}"}
    IN IF js = {} THEN Len(template) + 1
       ELSE CHOOSE j \in js : \A k \in js : j <= k

RECURSIVE extract_from(_, _)
\* the loop of extract_params with the iterator at position i
extract_from(template, i) ==
    IF i > Len(template) THEN <<>>
    ELSE IF template[i] = "{"
    THEN LET end == ClosingAfter(template, i)
             param_name == SubSeq(template, i + 1, end - 1)
         IN (IF param_name # <<>> THEN <<param_name>> ELSE <<>>)
            \o extract_from(template, end + 1)
    ELSE extract_from(template, i + 1)

\* extract_params(template)
extract_params(template) == extract_from(template, 1)

(***************************************************************************)
(* Specification SpecPath: extract_params on the templates of length at    *)
(* most MaxLen.                                                            *)
(***************************************************************************)
VARIABLES tTemplate, tParams, tPc

tvars == <<tTemplate, tParams, tPc>>

PathInit ==
    /\ tTemplate \in Templates
    /\ tParams = <<>>
    /\ tPc = "input"

\* derive_settings_group: let params = extract_params(&template)
DoExtractParams ==
    /\ tPc = "input"
    /\ tParams' = extract_params(tTemplate)
    /\ tPc' = "extracted"
    /\ UNCHANGED tTemplate

(***************************************************************************)
(* Specification SpecTick: the save systems of the two registered types    *)
(* in the PostUpdate schedule.  Both take Res<T> and Res<SettingsManager>, *)
(* so the executor may run them on two threads: each statement of          *)
(* save_settings_on_change is a step, and the steps of the two systems     *)
(* interleave.  The App has loaded without a file and has made its first   *)
(* update.                                                                 *)
(*   kLive      the resource of each type                                  *)
(*   kChanged   what is_changed() reports to the save system of each type  *)
(*   kPc        where the save system of each type stands                  *)
(*   kDelta     the local `delta` of each save system                      *)
(*   kMap       SettingsManager.settings_map                               *)
(*   kMapLock, kVerLock   the system that holds the mutex of settings_map  *)
(*              and of versions, None when it is free                      *)
(*   kDisk      path -> bytes of the files that exist                      *)
(***************************************************************************)
VARIABLES kLive, kChanged, kPc, kDelta, kMap, kMapLock, kVerLock, kDisk

kvars == <<kLive, kChanged, kPc, kDelta, kMap, kMapLock, kVerLock, kDisk>>

TickStorage == PluginStorage("Json", "1.0.0")
\* SettingsManager.versions as Plugin::build filled it
TickVersions == [k \in {get_type_key(T) : T \in Types} |-> "1.0.0"]
\* the values the resources take
TickValues(T) ==
    {v \in Instances(T) : \A f \in FieldSet(T) \ {"value"} :
                            v.m[f] = Default(T).m[f]}
Free == "free"

TickInit ==
    /\ kLive = [T \in Types |-> Default(T)]
    /\ kChanged = AllFalse
    /\ kPc = [T \in Types |-> "idle"]
    /\ kDelta = AllNone
    /\ kMap = EmptyMap
    /\ kMapLock = Free
    /\ kVerLock = Free
    /\ kDisk = EmptyMap

\* a system of the Update schedule writes the resource through ResMut<T>
TickMutate(T, v) ==
    /\ \A U \in Types : kPc[U] = "idle"
    /\ kLive' = [kLive EXCEPT ![T] = v]
    /\ kChanged' = [kChanged EXCEPT ![T] = TRUE]
    /\ UNCHANGED <<kPc, kDelta, kMap, kMapLock, kVerLock, kDisk>>

\* the PostUpdate schedule starts: both save systems are ready to run
TickBegin ==
    /\ \A U \in Types : kPc[U] = "idle"
    /\ kPc' = [T \in Types |-> "check"]
    /\ UNCHANGED <<kLive, kChanged, kDelta, kMap, kMapLock, kVerLock, kDisk>>

\* if settings.is_changed() && !settings.is_added() { let delta = .. }
SystemCheck(T) ==
    /\ kPc[T] = "check"
    /\ kChanged' = [kChanged EXCEPT ![T] = FALSE]
    /\ IF should_save(kChanged[T], FALSE)
       THEN /\ kDelta' = [kDelta EXCEPT
                            ![T] = storage_compute_delta(T, kLive[T])]
            /\ kPc' = [kPc EXCEPT ![T] = "lock_map"]
       ELSE /\ kPc' = [kPc EXCEPT ![T] = "skipped"]
            /\ UNCHANGED kDelta
    /\ UNCHANGED <<kLive, kMap, kMapLock, kVerLock, kDisk>>

\* a lock of the map that does not wait for the mutex
SystemLockMapNoWait(T) ==
    /\ kPc[T] = "lock_map"
    /\ kMapLock' = T
    /\ kPc' = [kPc EXCEPT ![T] = "update_map"]
    /\ UNCHANGED <<kLive, kChanged, kDelta, kMap, kVerLock, kDisk>>

\* let mut map = manager.settings_map.lock().unwrap()
SystemLockMap(T) ==
    /\ kPc[T] = "lock_map"
    /\ kMapLock = Free
    /\ kMapLock' = T
    /\ kPc' = [kPc EXCEPT ![T] = "update_map"]
    /\ UNCHANGED <<kLive, kChanged, kDelta, kMap, kVerLock, kDisk>>

\* map.insert(type_key, delta_value) / map.remove(&type_key)
SystemUpdateMap(T) ==
    /\ kPc[T] = "update_map"
    /\ kMap' = IF kDelta[T] # None
               THEN (get_type_key(T) :> kDelta[T]) @@ kMap
               ELSE Without(kMap, get_type_key(T))
    /\ kPc' = [kPc EXCEPT ![T] = "lock_versions"]
    /\ UNCHANGED <<kLive, kChanged, kDelta, kMapLock, kVerLock, kDisk>>

\* let versions = manager.versions.lock().unwrap()
SystemLockVersions(T) ==
    /\ kPc[T] = "lock_versions"
    /\ kVerLock = Free
    /\ kVerLock' = T
    /\ kPc' = [kPc EXCEPT ![T] = "write"]
    /\ UNCHANGED <<kLive, kChanged, kDelta, kMap, kMapLock, kDisk>>

\* manager.storage.save_all_with_versions(&map, &versions)
SystemWrite(T) ==
    /\ kPc[T] = "write"
    /\ kDisk' = save_all_with_versions(TickStorage, kMap, TickVersions, kDisk)
    /\ kPc' = [kPc EXCEPT ![T] = "drop_versions"]
    /\ UNCHANGED <<kLive, kChanged, kDelta, kMap, kMapLock, kVerLock>>

\* the end of the block: the guard `versions` is dropped first
SystemDropVersions(T) ==
    /\ kPc[T] = "drop_versions"
    /\ kVerLock' = Free
    /\ kPc' = [kPc EXCEPT ![T] = "drop_map"]
    /\ UNCHANGED <<kLive, kChanged, kDelta, kMap, kMapLock, kDisk>>

\* then the guard `map`
SystemDropMap(T) ==
    /\ kPc[T] = "drop_map"
    /\ kMapLock' = Free
    /\ kPc' = [kPc EXCEPT ![T] = "saved"]
    /\ UNCHANGED <<kLive, kChanged, kDelta, kMap, kVerLock, kDisk>>

\* the schedule has run both systems
TickEnd ==
    /\ \A U \in Types : kPc[U] \in {"saved", "skipped"}
    /\ kPc' = [T \in Types |-> "idle"]
    /\ kDelta' = AllNone
    /\ UNCHANGED <<kLive, kChanged, kMap, kMapLock, kVerLock, kDisk>>

TickMutateAny == \E T \in Types : \E v \in TickValues(T) : TickMutate(T, v)
SystemCheckAny == \E T \in Types : SystemCheck(T)
SystemLockMapAny == \E T \in Types : SystemLockMap(T)
SystemUpdateMapAny == \E T \in Types : SystemUpdateMap(T)
SystemLockVersionsAny == \E T \in Types : SystemLockVersions(T)
SystemWriteAny == \E T \in Types : SystemWrite(T)
SystemDropVersionsAny == \E T \in Types : SystemDropVersions(T)
SystemDropMapAny == \E T \in Types : SystemDropMap(T)

(***************************************************************************)
(* bevy_settings_meta: SettingKind::Integer and validate_value.  The       *)
(* integers have IntBits bits in place of 64: i64 is IMin..IMax, u64 is    *)
(* 0..UMax, and a JSON number is an integer of IMin..UMax.                 *)
(***************************************************************************)
IntBits == 4
IMin == -(2 ^ (IntBits - 1))
IMax == 2 ^ (IntBits - 1) - 1
UMax == 2 ^ IntBits - 1

\* Option<i64>
Some(x) == [t |-> "some", v |-> x]
OptionI64 == {None} \cup {Some(x) : x \in IMin..IMax}

\* SettingsError
TypeMismatch == [t |-> "err", kind |-> "TypeMismatch"]
ValidationFailed == [t |-> "err", kind |-> "ValidationFailed"]

\* Value::as_i64: a number that fits i64
as_i64(val) ==
    IF val.t = "num" /\ val.n <= IMax THEN Some(val.n) ELSE None
\* Value::as_u64: a number that is not negative
as_u64(val) ==
    IF val.t = "num" /\ val.n >= 0 THEN Some(val.n) ELSE None
\* `u as i64`: the value with the same bits
u64_as_i64(u) == IF u > IMax THEN u - 2 ^ IntBits ELSE u
\* val.as_str().and_then(|s| s.parse::<i64>().ok()) on the strings tried
str_parse_i64(val) ==
    IF val.t = "str" /\ val.s = "0" THEN Some(0) ELSE None

\* SettingKind::Integer { min, max, .. }.validate_value(val)
validate_value(min, max, val) ==
    LET n_opt == IF as_i64(val) # None THEN as_i64(val)
                 ELSE IF as_u64(val) # None
                 THEN Some(u64_as_i64(as_u64(val).v))
                 ELSE str_parse_i64(val)
    IN IF n_opt = None THEN TypeMismatch
       ELSE IF min # None /\ n_opt.v < min.v THEN ValidationFailed
       ELSE IF max # None /\ n_opt.v > max.v THEN ValidationFailed
       ELSE Ok

(***************************************************************************)
(* Specification SpecMeta: validate_value of an Integer kind on the values *)
(* given to it.                                                            *)
(***************************************************************************)
VARIABLES vMin, vMax, vVal, vResult, vPc

xvars == <<vMin, vMax, vVal, vResult, vPc>>

\* the JSON values given: every integer a Number holds, and values of
\* other types
MetaValues ==
    {Num(i) : i \in IMin..UMax} \cup {Str("0"), Str("x"), Bool(TRUE), Null}

MetaInit ==
    /\ vMin \in OptionI64
    /\ vMax \in OptionI64
    /\ vVal \in MetaValues
    /\ vResult = None
    /\ vPc = "input"

\* kind.validate_value(&val)
DoValidate ==
    /\ vPc = "input"
    /\ vResult' = validate_value(vMin, vMax, vVal)
    /\ vPc' = "validated"
    /\ UNCHANGED <<vMin, vMax, vVal>>

(***************************************************************************)
(* The specifications.  Each leaves the other's variables alone.           *)
(***************************************************************************)
vars == <<dvars, pvars, svars, cvars, mvars, lvars, tvars, kvars, xvars>>

MetaIdle ==
    /\ vMin = None
    /\ vMax = None
    /\ vVal = None
    /\ vResult = None
    /\ vPc = "idle"

TickIdle ==
    /\ kLive = AllNone
    /\ kChanged = AllFalse
    /\ kPc = [T \in Types |-> "off"]
    /\ kDelta = AllNone
    /\ kMap = EmptyMap
    /\ kMapLock = "free"
    /\ kVerLock = "free"
    /\ kDisk = EmptyMap

PathIdle ==
    /\ tTemplate = <<>>
    /\ tParams = <<>>
    /\ tPc = "idle"

LoadIdle ==
    /\ lType = "-"
    /\ lStorage = None
    /\ lDisk = EmptyMap
    /\ lLive = None
    /\ lCall = None
    /\ lPc = "idle"

ManagerIdle ==
    /\ mDecl = "-"
    /\ mExt = "-"
    /\ mRes = None
    /\ mFiles = EmptyMap
    /\ mDirs = {}
    /\ mOp = "idle"
    /\ mResult = None

CodecIdle ==
    /\ cValue = None
    /\ cFormat = "-"
    /\ cBytes = None
    /\ cDecoded = None
    /\ cPc = "idle"

StorageIdle ==
    /\ sStorage = None
    /\ sDisk = EmptyMap
    /\ sMap = EmptyMap
    /\ sType = "-"
    /\ sResult = None
    /\ sPc = "idle"

DeltaIdle ==
    /\ dSettings = None
    /\ dDefaults = None
    /\ dDelta = None
    /\ dMerged = None
    /\ dAgain = None
    /\ dPc = "idle"

PluginIdle ==
    /\ disk = EmptyMap
    /\ pc = "idle"
    /\ storage = None
    /\ live = AllNone
    /\ changed = AllFalse
    /\ added = AllFalse
    /\ settings_map = EmptyMap
    /\ versions = EmptyMap
    /\ pending = {}
    /\ saving = NoneSaving
    /\ lastAct = NoAct
    /\ migrateLog = AllNone
    /\ autosaved = AllNone
    /\ persisted = AllNone
    /\ unsaved = AllFalse
    /\ fileAtLoad = FALSE

Init ==
    /\ PluginInit /\ DeltaIdle /\ StorageIdle /\ CodecIdle
    /\ ManagerIdle /\ LoadIdle /\ PathIdle /\ TickIdle /\ MetaIdle
Next ==
    \/ Build(PluginConfigs({"Json"}))
         /\ UNCHANGED <<dvars, svars, cvars, mvars, lvars, tvars, kvars,
                      xvars>>
    \/ MutateAny
         /\ UNCHANGED <<dvars, svars, cvars, mvars, lvars, tvars, kvars,
                      xvars>>
    \/ BeginTick
         /\ UNCHANGED <<dvars, svars, cvars, mvars, lvars, tvars, kvars,
                      xvars>>
    \/ RunSaveSystem
         /\ UNCHANGED <<dvars, svars, cvars, mvars, lvars, tvars, kvars,
                      xvars>>
    \/ AppExit
         /\ UNCHANGED <<dvars, svars, cvars, mvars, lvars, tvars, kvars,
                      xvars>>
Spec == Init /\ [][Next]_vars

\* Specification SpecFormats: the plugin of Spec configured with the Json
\* or with the Binary format, on the disks FormatDisks
InitFormats ==
    /\ PluginFormatsInit /\ DeltaIdle /\ StorageIdle /\ CodecIdle
    /\ ManagerIdle /\ LoadIdle /\ PathIdle /\ TickIdle /\ MetaIdle
NextFormats ==
    \/ Build(PluginConfigs(PluginFormats))
         /\ UNCHANGED <<dvars, svars, cvars, mvars, lvars, tvars, kvars,
                      xvars>>
    \/ MutateFormats
         /\ UNCHANGED <<dvars, svars, cvars, mvars, lvars, tvars, kvars,
                      xvars>>
    \/ BeginTick
         /\ UNCHANGED <<dvars, svars, cvars, mvars, lvars, tvars, kvars,
                      xvars>>
    \/ RunSaveSystem
         /\ UNCHANGED <<dvars, svars, cvars, mvars, lvars, tvars, kvars,
                      xvars>>
    \/ AppExit
         /\ UNCHANGED <<dvars, svars, cvars, mvars, lvars, tvars, kvars,
                      xvars>>
SpecFormats == InitFormats /\ [][NextFormats]_vars

InitDelta ==
    /\ DeltaInit /\ PluginIdle /\ StorageIdle /\ CodecIdle
    /\ ManagerIdle /\ LoadIdle /\ PathIdle /\ TickIdle /\ MetaIdle
NextDelta ==
    \/ DoComputeDelta
         /\ UNCHANGED <<pvars, svars, cvars, mvars, lvars, tvars, kvars,
                      xvars>>
    \/ DoMerge
         /\ UNCHANGED <<pvars, svars, cvars, mvars, lvars, tvars, kvars,
                      xvars>>
    \/ DoOverlay
         /\ UNCHANGED <<pvars, svars, cvars, mvars, lvars, tvars, kvars,
                      xvars>>
    \/ DoOverlayAgain
         /\ UNCHANGED <<pvars, svars, cvars, mvars, lvars, tvars, kvars,
                      xvars>>
SpecDelta == InitDelta /\ [][NextDelta]_vars

InitStorage ==
    /\ StorageInit /\ DeltaIdle /\ PluginIdle /\ CodecIdle
    /\ ManagerIdle /\ LoadIdle /\ PathIdle /\ TickIdle /\ MetaIdle
NextStorage ==
    \/ StorageSaveAllWithVersions
         /\ UNCHANGED <<dvars, pvars, cvars, mvars, lvars, tvars, kvars,
                      xvars>>
    \/ StorageSaveAll
         /\ UNCHANGED <<dvars, pvars, cvars, mvars, lvars, tvars, kvars,
                      xvars>>
    \/ StorageLoad
         /\ UNCHANGED <<dvars, pvars, cvars, mvars, lvars, tvars, kvars,
                      xvars>>
    \/ StorageDelete
         /\ UNCHANGED <<dvars, pvars, cvars, mvars, lvars, tvars, kvars,
                      xvars>>
SpecStorage == InitStorage /\ [][NextStorage]_vars

InitCodec ==
    /\ CodecInit /\ DeltaIdle /\ PluginIdle /\ StorageIdle
    /\ ManagerIdle /\ LoadIdle /\ PathIdle /\ TickIdle /\ MetaIdle
NextCodec ==
    \/ DoEncode
         /\ UNCHANGED <<dvars, pvars, svars, mvars, lvars, tvars, kvars,
                      xvars>>
    \/ DoDecode
         /\ UNCHANGED <<dvars, pvars, svars, mvars, lvars, tvars, kvars,
                      xvars>>
SpecCodec == InitCodec /\ [][NextCodec]_vars

InitManager ==
    /\ ManagerInit /\ DeltaIdle /\ PluginIdle /\ StorageIdle /\ CodecIdle
    /\ LoadIdle /\ PathIdle /\ TickIdle /\ MetaIdle
NextManager ==
    \/ SetResource
         /\ UNCHANGED <<dvars, pvars, svars, cvars, lvars, tvars, kvars,
                      xvars>>
    \/ SaveSettings
         /\ UNCHANGED <<dvars, pvars, svars, cvars, lvars, tvars, kvars,
                      xvars>>
    \/ LoadSettings
         /\ UNCHANGED <<dvars, pvars, svars, cvars, lvars, tvars, kvars,
                      xvars>>
SpecManager == InitManager /\ [][NextManager]_vars

InitLoad ==
    /\ LoadInit /\ DeltaIdle /\ PluginIdle /\ StorageIdle /\ CodecIdle
    /\ ManagerIdle /\ PathIdle /\ TickIdle /\ MetaIdle
NextLoad ==
    \/ LoadAndInsert
         /\ UNCHANGED <<dvars, pvars, svars, cvars, mvars, tvars, kvars,
                      xvars>>
SpecLoad == InitLoad /\ [][NextLoad]_vars

InitPath ==
    /\ PathInit /\ DeltaIdle /\ PluginIdle /\ StorageIdle /\ CodecIdle
    /\ ManagerIdle /\ LoadIdle /\ TickIdle /\ MetaIdle
NextPath ==
    \/ DoExtractParams
         /\ UNCHANGED <<dvars, pvars, svars, cvars, mvars, lvars, kvars,
                      xvars>>
SpecPath == InitPath /\ [][NextPath]_vars

TickOthers == <<dvars, pvars, svars, cvars, mvars, lvars, tvars, xvars>>
InitTick ==
    /\ TickInit /\ DeltaIdle /\ PluginIdle /\ StorageIdle /\ CodecIdle
    /\ ManagerIdle /\ LoadIdle /\ PathIdle /\ MetaIdle
NextTick ==
    \/ TickMutateAny /\ UNCHANGED TickOthers
    \/ TickBegin /\ UNCHANGED TickOthers
    \/ SystemCheckAny /\ UNCHANGED TickOthers
    \/ SystemLockMapAny /\ UNCHANGED TickOthers
    \/ SystemUpdateMapAny /\ UNCHANGED TickOthers
    \/ SystemLockVersionsAny /\ UNCHANGED TickOthers
    \/ SystemWriteAny /\ UNCHANGED TickOthers
    \/ SystemDropVersionsAny /\ UNCHANGED TickOthers
    \/ SystemDropMapAny /\ UNCHANGED TickOthers
    \/ TickEnd /\ UNCHANGED TickOthers
SpecTick == InitTick /\ [][NextTick]_vars

InitMeta ==
    /\ MetaInit /\ DeltaIdle /\ PluginIdle /\ StorageIdle /\ CodecIdle
    /\ ManagerIdle /\ LoadIdle /\ PathIdle /\ TickIdle
NextMeta ==
    \/ DoValidate
         /\ UNCHANGED <<dvars, pvars, svars, cvars, mvars, lvars, tvars,
                        kvars>>
SpecMeta == InitMeta /\ [][NextMeta]_vars

(***************************************************************************)
(* Properties of the delta engine (SpecDelta)                              *)
(***************************************************************************)
DeltaComputed == dPc \in {"delta", "merged"}

\* C1: round-trip law: merging the delta computed for an instance back onto
\* the defaults gives the instance again, for every instance, also one whose
\* tree lacks a key of the default tree.
C1_RoundTrip == dPc = "merged" => dMerged = dSettings

\* C2: an instance equal to the defaults has no delta: compute_delta
\* returns None.
C2_DefaultHasNoDelta ==
    (DeltaComputed /\ dSettings = dDefaults) => dDelta = None
C2_Witness == dPc = "delta" /\ dSettings = dDefaults /\ IsObj(dSettings)

\* C3: compute_delta returns None if and only if the instance equals the
\* default; whenever the trees differ (changed value, added key or missing
\* key) the delta is Some and not an empty object.
C3_NoneIffEqual ==
    DeltaComputed =>
        /\ (dDelta = None <=> dSettings = dDefaults)
        /\ dDelta # Obj(EmptyMap)

\* the instance is the default tree with the one leaf at k1.k2 set to x
OneNestedLeafChanged(k1, k2, x) ==
    /\ IsObj(dDefaults)
    /\ k1 \in Keys(dDefaults)
    /\ IsObj(dDefaults.m[k1])
    /\ k2 \in Keys(dDefaults.m[k1])
    /\ ~IsObj(dDefaults.m[k1].m[k2])
    /\ x # dDefaults.m[k1].m[k2]
    /\ dSettings = Obj([dDefaults.m EXCEPT
                          ![k1] = Obj([dDefaults.m[k1].m EXCEPT ![k2] = x])])

\* C4: partial update preserves siblings: when exactly one leaf nested in
\* an object differs from the defaults, the delta is the chain of parent
\* keys down to that leaf with its new value and nothing else (no
\* unchanged sibling, no empty parent object).
C4_PartialUpdate ==
    DeltaComputed =>
        \A k1 \in TreeKeys, k2 \in TreeKeys, x \in Leaves :
            OneNestedLeafChanged(k1, k2, x)
                => dDelta = Obj(k1 :> Obj(k2 :> x))
C4_Witness ==
    /\ dPc = "delta"
    /\ \E k1 \in TreeKeys, k2 \in TreeKeys, x \in Leaves :
          /\ OneNestedLeafChanged(k1, k2, x)
          /\ Cardinality(Keys(dDefaults)) = 2
          /\ Cardinality(Keys(dDefaults.m[k1])) = 2

\* every key of the instance whose value is copied and not diffed is in
\* the delta with the instance's whole value, at every level
RECURSIVE CopiedVerbatim(_, _, _)
CopiedVerbatim(current, default, delta) ==
    \A k \in Keys(current) :
        LET c == current.m[k] IN
        IF k \notin Keys(default)
        THEN IsObj(delta) /\ k \in Keys(delta) /\ delta.m[k] = c
        ELSE LET d == default.m[k] IN
             IF c = d THEN TRUE
             ELSE IF IsObj(c) /\ IsObj(d)
             THEN (IsObj(delta) /\ k \in Keys(delta))
                     => CopiedVerbatim(c, d, delta.m[k])
             ELSE IsObj(delta) /\ k \in Keys(delta) /\ delta.m[k] = c

\* C19: no element-wise array diffing: a key whose value in the instance is
\* a sequence or a scalar that differs from the default's value is in the
\* delta with the instance's entire value, never a partial sequence, and a
\* key the defaults lack is copied verbatim whatever its shape.
C19_NoArrayDiffing ==
    (DeltaComputed /\ IsObj(dSettings) /\ IsObj(dDefaults))
        => CopiedVerbatim(dSettings, dDefaults, dDelta)
C19_Witness ==
    /\ dPc = "delta"
    /\ IsObj(dSettings) /\ IsObj(dDefaults)
    /\ \E k \in Keys(dSettings) \cap Keys(dDefaults) :
          /\ dSettings.m[k].t = "seq" /\ dDefaults.m[k].t = "seq"
          /\ Len(dSettings.m[k].q) = 2
          /\ dSettings.m[k].q[1] = dDefaults.m[k].q[1]
          /\ dDelta.m[k] = dSettings.m[k]
    /\ \E k \in Keys(dSettings) \ Keys(dDefaults) : IsObj(dSettings.m[k])

\* delta names only key paths of c; where c and d are both objects it
\* holds a key only if the values differ, and is sound below it; elsewhere
\* it is c's value, which differs from d's or has no counterpart in d
RECURSIVE SoundMinimal(_, _, _)
SoundMinimal(c, d, delta) ==
    IF delta = None THEN TRUE
    ELSE IF IsObj(c) /\ IsObj(d)
    THEN /\ IsObj(delta)
         /\ Keys(delta) \subseteq Keys(c)
         /\ \A k \in Keys(delta) :
               IF k \in Keys(d)
               THEN /\ c.m[k] # d.m[k]
                    /\ delta.m[k] # d.m[k]
                    /\ SoundMinimal(c.m[k], d.m[k], delta.m[k])
               ELSE delta.m[k] = c.m[k]
    ELSE delta = c /\ c # d

\* C27: the delta is sound and minimal: every key path of
\* compute_value_delta(c, d) is a key path of c, a value it holds where it
\* did not recurse is c's value there and differs from d's value at the
\* path or d has no such path; no value equal to the default is repeated.
C27_DeltaSoundMinimal ==
    DeltaComputed =>
        /\ dDelta = compute_value_delta(dSettings, dDefaults)
        /\ SoundMinimal(dSettings, dDefaults, dDelta)

\* a delta with a nested object that was diffed, one key of which is at
\* its default and left out, and with a key the defaults lack
C27_Witness ==
    /\ dPc = "delta"
    /\ IsObj(dSettings) /\ IsObj(dDefaults) /\ IsObj(dDelta)
    /\ \E k \in Keys(dDelta) \cap Keys(dDefaults) :
          /\ IsObj(dSettings.m[k]) /\ IsObj(dDefaults.m[k])
          /\ Keys(dDelta.m[k]) # Keys(dSettings.m[k])
          /\ Keys(dDelta.m[k]) \ Keys(dDefaults.m[k]) # {}

\* r is d overlaid with x
RECURSIVE Overlaid(_, _, _)
Overlaid(d, x, r) ==
    IF IsObj(d) /\ IsObj(x)
    THEN /\ IsObj(r)
         /\ Keys(r) = Keys(d) \cup Keys(x)
         /\ \A k \in Keys(d) \ Keys(x) : r.m[k] = d.m[k]
         /\ \A k \in Keys(x) \ Keys(d) : r.m[k] = x.m[k]
         /\ \A k \in Keys(x) \cap Keys(d) :
               IF IsObj(d.m[k]) /\ IsObj(x.m[k])
               THEN Overlaid(d.m[k], x.m[k], r.m[k])
               ELSE r.m[k] = x.m[k]
    ELSE r = x

\* C20: merge overlay semantics: merge_values(d, x) keeps d's value at every
\* key x does not mention, merges recursively where both hold objects,
\* takes x's value where either side is not an object, and holds every key
\* of x that d lacks with x's value.
C20_MergeOverlay == dPc = "overlay" => Overlaid(dDefaults, dSettings, dMerged)
C20_Witness ==
    /\ dPc = "overlay"
    /\ IsObj(dDefaults) /\ IsObj(dSettings)
    /\ Keys(dDefaults) \ Keys(dSettings) # {}
    /\ \E k \in Keys(dDefaults) \cap Keys(dSettings) :
          /\ IsObj(dDefaults.m[k]) /\ IsObj(dSettings.m[k])
          /\ Keys(dSettings.m[k]) \ Keys(dDefaults.m[k]) # {}
          /\ Keys(dDefaults.m[k]) \ Keys(dSettings.m[k]) # {}
          /\ dMerged.m[k] # dSettings.m[k]
          /\ dMerged.m[k] # dDefaults.m[k]

\* C28: merging is idempotent: merging the source a second time into the
\* result of the first merge changes nothing.
C28_MergeIdempotent == dPc = "again" => dAgain = dMerged

\* a second merge of a source with a sequence and with a nested object
\* that has a key the target lacks
C28_Witness ==
    /\ dPc = "again"
    /\ IsObj(dSettings) /\ IsObj(dDefaults)
    /\ dMerged # dSettings /\ dMerged # dDefaults
    /\ \E k \in Keys(dSettings) \cap Keys(dDefaults) :
          /\ IsObj(dSettings.m[k]) /\ IsObj(dDefaults.m[k])
          /\ Keys(dSettings.m[k]) \ Keys(dDefaults.m[k]) # {}
    /\ \E k \in Keys(dSettings) \cap Keys(dDefaults) :
          /\ dSettings.m[k].t = "seq" /\ dDefaults.m[k].t = "seq"
          /\ dSettings.m[k] # dDefaults.m[k]

(***************************************************************************)
(* Properties of the unified store (Spec, SpecFormats)                     *)
(***************************************************************************)
\* the file of the store the App was built with
FilePath == IF storage = None THEN StorePath ELSE get_path(storage)
FileExists == FilePath \in DOMAIN disk
\* the file holds a JSON object
FileIsObject ==
    /\ FileExists
    /\ disk[FilePath].fmt = "json"
    /\ IsObj(disk[FilePath].root)
\* the file holds an object in the format of the store
FileHoldsObject ==
    /\ FileExists
    /\ disk[FilePath].fmt
          = (IF storage.format = "Json" THEN "json" ELSE "bincode")
    /\ IsObj(disk[FilePath].root)
FileRootMap == disk[FilePath].root.m
FileSectionKeys == DOMAIN FileRootMap \ {"_versions"}

\* the delta of a value of a flat struct, field by field
FieldDelta(T, v) ==
    Obj([f \in {g \in FieldSet(T) : v.m[g] # Default(T).m[g]} |-> v.m[f]])
NonDefault == {T \in Types : live[T] # Default(T)}

\* C5: the save aggregates all sections: after a load from an existing
\* file and changes that were all auto-saved, the file holds a key for
\* exactly the registered sections whose live value differs from the
\* defaults, each with its current delta; the file is not deleted while
\* a section is non-default.
C5_SaveAggregatesAll ==
    (/\ pc = "running"
     /\ fileAtLoad
     /\ lastAct.op = "save"
     /\ \A T \in Types : ~unsaved[T])
    => IF NonDefault = {} THEN ~FileExists
       ELSE /\ FileHoldsObject
            /\ FileSectionKeys = {SECTION(T) : T \in NonDefault}
            /\ \A T \in NonDefault :
                  FileRootMap[SECTION(T)] = FieldDelta(T, live[T])

\* C6: a save of defaults never writes an empty representation: after a
\* save, a section whose live value equals its defaults has no key in the
\* aggregate, an empty aggregate means no file, and a file on disk holds at
\* least one section key; saving defaults a second time changes nothing.
C6_AfterSave ==
    (pc = "running" /\ lastAct.op = "save") =>
        /\ live[lastAct.T] = Default(lastAct.T)
              => SECTION(lastAct.T) \notin DOMAIN settings_map
        /\ DOMAIN settings_map = {} => ~FileExists
        /\ FileExists => FileHoldsObject /\ FileSectionKeys # {}
C6_SecondSaveSame ==
    (lastAct'.op = "save" /\ lastAct'.again)
        => disk' = disk /\ settings_map' = settings_map
C6_SaveOfDefaults == []C6_AfterSave /\ [][C6_SecondSaveSame]_vars
C6_Witness ==
    /\ lastAct.op = "save"
    /\ lastAct.again
    /\ settings_map = EmptyMap
    /\ ~FileExists

\* C7: a missing file is not an error: the load finds no section (migrate
\* is not called), every live value equals its defaults, and neither the
\* load nor the first update tick creates the file; a file is created only
\* by the save of a section changed to a non-default value.
C7_LoadOfMissingFile ==
    (lastAct.op = "build" /\ ~fileAtLoad) =>
        /\ \A T \in Types : live[T] = Default(T) /\ migrateLog[T] = None
        /\ ~FileExists
C7_FileCreation ==
    (DOMAIN disk' \ DOMAIN disk # {}) =>
        /\ lastAct'.op = "save"
        /\ ~added[lastAct'.T]
        /\ live[lastAct'.T] # Default(lastAct'.T)
C7_MissingFile == []C7_LoadOfMissingFile /\ [][C7_FileCreation]_vars
C7_Witness ==
    /\ pc = "running"
    /\ ~fileAtLoad
    /\ lastAct.op = "skip"
    /\ pending = {}
    /\ saving = NoneSaving
    /\ \E T \in Types : unsaved[T] /\ ~changed[T] /\ live[T] # Default(T)
    /\ ~FileExists

\* C8: persist-then-reload: a value given to a section and auto-saved is
\* the live value a fresh plugin instance of the same name, base path,
\* format, version and sections loads, in the Json and in the Binary
\* format (SpecFormats).
C8_PersistThenReload ==
    (pc = "running" /\ lastAct.op = "build") =>
        \A T \in Types : persisted[T] # None => live[T] = persisted[T]

\* a stored delta every field of which has the type of the struct's field
FieldWellTyped(f, v) ==
    CASE f = "value" -> v.t = "num"
      [] f = "name" -> v.t = "str"
      [] f = "new_field" -> v.t \in {"null", "str"}
      [] OTHER -> TRUE
WellTyped(d) == IsObj(d) /\ \A f \in Keys(d) : FieldWellTyped(f, d.m[f])
Stored(T) == FileRootMap[SECTION(T)]
HasStored(T) == FileIsObject /\ SECTION(T) \in DOMAIN FileRootMap

\* C9: load failures are isolated per section: a section whose stored
\* delta does not deserialise into its type gets exactly its defaults (no
\* field is recovered), and every other section loads its stored delta
\* over its defaults.
C9_LoadFailureIsolated ==
    (pc = "running" /\ lastAct.op = "build") =>
        \A T \in Types :
            HasStored(T) =>
                IF ~WellTyped(Stored(T)) THEN live[T] = Default(T)
                ELSE \A f \in FieldSet(T) :
                        IF f \in Keys(Stored(T))
                        THEN live[T].m[f] = Stored(T).m[f]
                        ELSE \/ live[T].m[f] = Default(T).m[f]
                             \/ /\ f = "new_field"
                                /\ live[T].m[f] = Str("migrated")
C9_Witness ==
    /\ pc = "running"
    /\ lastAct.op = "build"
    /\ HasStored("TestSettings")
    /\ ~WellTyped(Stored("TestSettings"))
    /\ "name" \in Keys(Stored("TestSettings"))
    /\ HasStored("MigratableSettings")
    /\ WellTyped(Stored("MigratableSettings"))
    /\ live["MigratableSettings"] # Default("MigratableSettings")

\* the version recorded for the section is the string v
RecordedVersion(T, v) ==
    /\ "_versions" \in DOMAIN FileRootMap
    /\ IsObj(FileRootMap["_versions"])
    /\ SECTION(T) \in Keys(FileRootMap["_versions"])
    /\ FileRootMap["_versions"].m[SECTION(T)] = Str(v)
\* the file holds a well-typed delta of MigratableSettings without
\* new_field
StoredWithoutNewField ==
    /\ HasStored("MigratableSettings")
    /\ WellTyped(Stored("MigratableSettings"))
    /\ "new_field" \notin Keys(Stored("MigratableSettings"))

\* C10: migration gate: migrate gets the version recorded for the section
\* in _versions and the target version, and what it returns is merged onto
\* the defaults: recorded 1.0.0 and target 2.0.0 load a delta without
\* new_field with the migrated value; recorded 2.0.0 leaves the field at
\* the schema default.
C10_MigrationGate ==
    (pc = "running" /\ lastAct.op = "build" /\ StoredWithoutNewField) =>
        LET T == "MigratableSettings" IN
        /\ (RecordedVersion(T, "1.0.0") /\ storage.version = Str("2.0.0")) =>
              /\ migrateLog[T] = [file_version |-> <<1, 0, 0>>,
                                  target_version |-> <<2, 0, 0>>,
                                  data |-> Stored(T)]
              /\ live[T].m["new_field"] = Str("migrated")
        /\ RecordedVersion(T, "2.0.0") =>
              /\ migrateLog[T] # None
              /\ migrateLog[T].file_version = <<2, 0, 0>>
              /\ migrateLog[T].data = Stored(T)
              /\ live[T].m["new_field"] = Default(T).m["new_field"]
C10_Witness ==
    /\ pc = "running"
    /\ lastAct.op = "build"
    /\ StoredWithoutNewField
    /\ RecordedVersion("MigratableSettings", "1.0.0")
    /\ storage.version = Str("2.0.0")
    /\ live["MigratableSettings"].m["new_field"] = Str("migrated")
    /\ live["MigratableSettings"].m["value"] = Num(0)

\* the version a load of the file reads for the section, None when the
\* load fails or reads none
ReloadedVersion(T) ==
    LET res == load_all_with_versions(storage, disk)
    IN IF res = Err THEN None
       ELSE IF SECTION(T) \in DOMAIN res.versions
       THEN res.versions[SECTION(T)] ELSE None

\* C11: version tracking: in every file written by a save, in the Json and
\* in the Binary format (SpecFormats), _versions maps every section key of
\* the file to the version string of the store, and a load of that file
\* reads the same version back for the section.
C11_VersionTracking ==
    (pc = "running" /\ lastAct.op = "save" /\ FileExists) =>
        /\ FileHoldsObject
        /\ \A T \in Types :
              SECTION(T) \in FileSectionKeys =>
                  /\ RecordedVersion(T, storage.version.s)
                  /\ ReloadedVersion(T) = storage.version

(***************************************************************************)
(* Properties of Storage used directly (SpecStorage)                       *)
(***************************************************************************)
\* C16: with the Binary format a save of a non-empty settings map writes
\* the file <name>.bin under the base path.
C16_BinaryFileName ==
    (sPc = "saved" /\ sStorage.format = "Binary" /\ sMap # EmptyMap)
        => (BasePath \o "/" \o PluginName \o ".bin") \in DOMAIN sDisk

\* the delta stored in the Json file under the key of the type loaded
StoredFor(T) == sDisk[get_path(sStorage)].root.m[get_type_key(T)]
LoadedStored ==
    /\ sPc = "loaded"
    /\ sStorage.format = "Json"
    /\ get_path(sStorage) \in DOMAIN sDisk
    /\ sDisk[get_path(sStorage)].fmt = "json"
    /\ get_type_key(sType) \in Keys(sDisk[get_path(sStorage)].root)

\* C17: Storage::load returns the defaults overlaid with the delta stored
\* under the key: the stored fields from the file, every other field from
\* the defaults; and the defaults when the key is not in the file.
C17_LoadMerges ==
    /\ LoadedStored =>
          /\ IsObj(sResult)
          /\ \A f \in FieldSet(sType) :
                sResult.m[f] = IF f \in Keys(StoredFor(sType))
                               THEN StoredFor(sType).m[f]
                               ELSE Default(sType).m[f]
    /\ (sPc = "loaded" /\ sStorage.format = "Json" /\ ~LoadedStored
          /\ sDisk = EmptyMap)
          => sResult = Default(sType)

(***************************************************************************)
(* Properties of the codecs (SpecCodec)                                    *)
(***************************************************************************)
\* C18: codec round-trip: for each of json, toml, ron and bin and every
\* value tree v, encoding v succeeds and decoding the bytes in the same
\* format succeeds and gives v.
C18_CodecRoundTrip ==
    cFormat \in SupportedFormats =>
        /\ cPc = "encoded" => ~IsErr(cBytes)
        /\ cPc = "decoded" => cDecoded = cValue


(***************************************************************************)
(* Properties of the settings manager (SpecManager).                       *)
(***************************************************************************)
\* the path parameter as the resource's tree holds it
SlotOf(resource) ==
    IF "slot_id" \in Keys(resource) THEN resource.m["slot_id"] ELSE Absent
\* the path parameter is absent, null or a string that trims to nothing
SlotUnusable(resource) ==
    \/ SlotOf(resource) = Absent
    \/ SlotOf(resource) = Null
    \/ SlotOf(resource) \in {Str(""), Str(" ")}
\* the file a resource with a usable path parameter resolves to
FileOf(resource, ext) ==
    PathString(ResolvedPath(SlotOf(resource).s), ext)

\* C12: a save of a resource whose path parameter is absent, null or blank
\* returns a Path error, and neither a file nor a directory is created,
\* written or removed by it.
C12_PathParamValidation ==
    [][(mOp' = "save" /\ SlotUnusable(mRes))
         => /\ mResult' = PathError
            /\ mFiles' = mFiles
            /\ mDirs' = mDirs]_vars

\* a save refused for an absent parameter, and one refused for a blank or
\* null one, with the file of an earlier run still in place
C12_Witness ==
    /\ mOp = "save"
    /\ mResult = PathError
    /\ SlotOf(mRes) \in {Absent, Null, Str(" ")}
    /\ mRes.m["inventory"] # InventoryDefault
    /\ mFiles # EmptyMap

\* C13: the payload a save writes has no top-level key that is a path
\* parameter; when only path parameters differ from the defaults, nothing
\* is written and the file at the resolved path does not exist afterwards.
C13_ParamsNotPersisted ==
    [][(mOp' = "save" /\ mResult' = Ok)
         => LET path == FileOf(mRes, mExt) IN
            /\ path \in DOMAIN mFiles'
                 => /\ IsObj(mFiles'[path].root)
                    /\ Keys(mFiles'[path].root) \cap path_params = {}
            /\ mRes.m["inventory"] = InventoryDefault
                 => /\ path \notin DOMAIN mFiles'
                    /\ mDirs' = mDirs]_vars

\* a save of a resource whose slot and inventory both differ from the
\* defaults has written a file without the slot
C13_Witness ==
    /\ mOp = "save"
    /\ mResult = Ok
    /\ SlotOf(mRes) = Str("slot_2")
    /\ mRes.m["inventory"] # InventoryDefault
    /\ FileOf(mRes, mExt) \in DOMAIN mFiles
    /\ "slot_id" \notin Keys(mFiles[FileOf(mRes, mExt)].root)

\* C14: after a successful load the path parameter of the resource is the
\* one it had before the load, whatever the file holds; when the file
\* does not exist every other field is the default.
C14_LoadKeepsParams ==
    [][(mOp' = "load" /\ mResult' = Ok)
         => /\ SlotOf(mRes') = SlotOf(mRes)
            /\ (~SlotUnusable(mRes)
                   /\ FileOf(mRes, mExt) \notin DOMAIN mFiles)
                 => mRes'.m["inventory"] = InventoryDefault]_vars

\* a load from a file that names another slot kept the resource's slot
\* and took the file's inventory
C14_Witness ==
    /\ mOp = "load"
    /\ mResult = Ok
    /\ SlotOf(mRes) = Str("slot_1")
    /\ FileOf(mRes, mExt) \in DOMAIN mFiles
    /\ mFiles[FileOf(mRes, mExt)] # Garbage
    /\ IsObj(mFiles[FileOf(mRes, mExt)].root)
    /\ "slot_id" \in Keys(mFiles[FileOf(mRes, mExt)].root)
    /\ mFiles[FileOf(mRes, mExt)].root.m["slot_id"] = Str("slot_2")
    /\ mRes.m["inventory"] # InventoryDefault

\* C15: with a template whose extension is none of json, toml, ron, bin,
\* a save that has something to write returns UnsupportedFormat and
\* creates neither a directory nor a file, and a load of an existing file
\* returns UnsupportedFormat and leaves the resource as it was.
C15_UnsupportedFormat ==
    [][(path_extension(mExt) \notin SupportedFormats /\ ~SlotUnusable(mRes))
         => /\ (mOp' = "save" /\ mRes.m["inventory"] # InventoryDefault)
                 => /\ mResult' = UnsupportedFormat
                    /\ mFiles' = mFiles
                    /\ mDirs' = mDirs
            /\ (mOp' = "load" /\ FileOf(mRes, mExt) \in DOMAIN mFiles
                  /\ mFiles[FileOf(mRes, mExt)] # Directory)
                 => /\ mResult' = UnsupportedFormat
                    /\ mRes' = mRes]_vars

\* a save to a .yaml template refused before anything was created
C15_Witness ==
    /\ mOp = "save"
    /\ mResult = UnsupportedFormat
    /\ mExt = "yaml"
    /\ mRes.m["inventory"] # InventoryDefault
    /\ mFiles = EmptyMap
    /\ mDirs = {}


(***************************************************************************)
(* Properties of the plugin's load (Spec)                                  *)
(***************************************************************************)
\* C21: in one plugin load migrate is called at most once for a section,
\* and only with the delta the file holds under the section's key; a
\* section without a stored delta is not migrated and gets its defaults.
C21_MigrateOnlyStored ==
    (pc = "running" /\ lastAct.op = "build") =>
        \A T \in Types :
            /\ load_and_insert(T, storage, disk).calls <= 1
            /\ migrateLog[T] # None =>
                  /\ HasStored(T)
                  /\ migrateLog[T].data = Stored(T)
            /\ ~HasStored(T) =>
                  /\ migrateLog[T] = None
                  /\ load_and_insert(T, storage, disk).calls = 0
                  /\ live[T] = Default(T)

\* a load from a file that holds a delta of TestSettings and none of
\* MigratableSettings, with a version below 2.0.0 recorded for it
C21_Witness ==
    /\ pc = "running"
    /\ lastAct.op = "build"
    /\ FileIsObject
    /\ HasStored("TestSettings")
    /\ migrateLog["TestSettings"] # None
    /\ ~HasStored("MigratableSettings")
    /\ RecordedVersion("MigratableSettings", "1.0.0")
    /\ storage.version = Str("2.0.0")
    /\ migrateLog["MigratableSettings"] = None


\* the file still holds the delta of MigratableSettings as version 1.0.0
\* wrote it, and the resource is what the load by version 2.0.0 made of it
MigratedNotYetSaved ==
    /\ pc = "running"
    /\ storage.version = Str("2.0.0")
    /\ StoredWithoutNewField
    /\ RecordedVersion("MigratableSettings", "1.0.0")
    /\ live["MigratableSettings"].m["new_field"] = Str("migrated")
    /\ live["MigratableSettings"]
          = load_and_insert("MigratableSettings", storage, disk).settings

\* C23: a load never writes: the plugin's load leaves the file as it is,
\* also when a migration changed the delta; the first save after it, made
\* for a detected change of a section, writes the migrated delta and the
\* new version of the migrated section.
C23_LoadNeverWrites ==
    [][/\ lastAct'.op = "build" => disk' = disk
       /\ (MigratedNotYetSaved /\ lastAct'.op = "save") =>
             /\ StorePath \in DOMAIN disk'
             /\ IsObj(disk'[StorePath].root)
             /\ {"migratable", "_versions"}
                    \subseteq Keys(disk'[StorePath].root)
             /\ "new_field" \in Keys(disk'[StorePath].root.m["migratable"])
             /\ disk'[StorePath].root.m["migratable"].m["new_field"]
                   = Str("migrated")
             /\ disk'[StorePath].root.m["_versions"].m["migratable"]
                   = Str("2.0.0")]_vars

(***************************************************************************)
(* Properties of one handler's load (SpecLoad)                             *)
(***************************************************************************)
\* migrate returned an error for the call the load made
MigrateFailed ==
    /\ lCall # None
    /\ migrate(lType, lCall.file_version, lCall.target_version, lCall.data)
          = Err
\* the stored delta laid over the defaults, field by field, when every
\* field of it that the type declares has the field's type
StoredOverDefaults(T, d) ==
    [f \in FieldSet(T) |->
        IF f \in Keys(d) THEN d.m[f] ELSE Default(T).m[f]]

\* C22: a migrate that returns an error does not fail the load: the
\* resource is the stored delta, as it is in the file, merged onto the
\* defaults, and the defaults when that delta does not deserialise.
C22_MigrationSoftFail ==
    (lPc = "loaded" /\ MigrateFailed) =>
        IF ~IsObj(lCall.data)
           \/ \E f \in Keys(lCall.data) \cap FieldSet(lType) :
                 ~FieldWellTyped(f, lCall.data.m[f])
        THEN lLive = Default(lType)
        ELSE lLive = Obj(StoredOverDefaults(lType, lCall.data))

\* a failed migration of a delta that changes one field: the field is
\* loaded
C22_Witness ==
    /\ lPc = "loaded"
    /\ MigrateFailed
    /\ lCall.data = Obj([value |-> Num(0)])
    /\ lLive = Obj([value |-> Num(0), name |-> Str("default"),
                    new_field |-> Str("new")])


\* the file is a JSON object with a delta under the section's key
LoadStored ==
    /\ StorePath \in DOMAIN lDisk
    /\ lDisk[StorePath].fmt = "json"
    /\ IsObj(lDisk[StorePath].root)
    /\ SECTION(lType) \in Keys(lDisk[StorePath].root)
\* _versions is an object that gives the section a string that is a
\* semantic version
LoadVersioned ==
    LET root == lDisk[StorePath].root IN
    /\ "_versions" \in Keys(root)
    /\ IsObj(root.m["_versions"])
    /\ SECTION(lType) \in Keys(root.m["_versions"])
    /\ root.m["_versions"].m[SECTION(lType)] \in {Str("1.0.0"), Str("2.0.0")}

\* C26: a section with a stored delta and no _versions entry, or one that
\* is no string or no semantic version, is migrated as unversioned
\* (file_version = None) and the load gives a value of the type; the map
\* of section deltas a load returns never has the key _versions.
C26_UnversionedSections ==
    lPc = "loaded" =>
        /\ (LoadStored /\ ~LoadVersioned) =>
              /\ lCall # None
              /\ lCall.file_version = None
              /\ lCall.data = lDisk[StorePath].root.m[SECTION(lType)]
              /\ IsObj(lLive)
              /\ Keys(lLive) = FieldSet(lType)
        /\ load_all_with_versions(lStorage, lDisk) # Err =>
              "_versions" \notin
                  DOMAIN load_all_with_versions(lStorage, lDisk).settings

\* a load from a file whose _versions is a number: the section is
\* migrated as unversioned and its delta is loaded
C26_Witness ==
    /\ lPc = "loaded"
    /\ lType = "MigratableSettings"
    /\ LoadStored
    /\ "_versions" \in Keys(lDisk[StorePath].root)
    /\ lDisk[StorePath].root.m["_versions"] = Num(0)
    /\ lCall # None
    /\ lCall.file_version = None
    /\ lLive.m["value"] = Num(0)

(***************************************************************************)
(* Properties of extract_params (SpecPath)                                 *)
(***************************************************************************)
RECURSIVE PlaceholdersFrom(_, _)
\* the names of the placeholders "{name}" that start at position i or
\* later, from left to right: an opening brace with no closing brace
\* after it and an empty pair of braces give no name
PlaceholdersFrom(template, i) ==
    IF i > Len(template) THEN <<>>
    ELSE IF template[i] # "{" THEN PlaceholdersFrom(template, i + 1)
    ELSE IF \A j \in (i + 1)..Len(template) : template[j] # "}"
    THEN PlaceholdersFrom(template, i + 1)
    ELSE LET j == ClosingAfter(template, i)
         IN (IF j > i + 1 THEN <<SubSeq(template, i + 1, j - 1)>> ELSE <<>>)
            \o PlaceholdersFrom(template, j + 1)

\* C24: extract_params returns the names of the placeholders of the
\* template from left to right; an unterminated opening brace and an
\* empty pair of braces give no parameter.
C24_ExtractParams ==
    tPc = "extracted" => tParams = PlaceholdersFrom(tTemplate, 1)


(***************************************************************************)
(* Properties of the save systems of one tick (SpecTick)                   *)
(***************************************************************************)
\* the sections of the file, as a map; the empty map without a file
TickFileSections ==
    IF StorePath \in DOMAIN kDisk
    THEN Without(kDisk[StorePath].root.m, "_versions")
    ELSE EmptyMap
\* the system of T is between its lock of the map and the drop of it
InMapSection(T) ==
    kPc[T] \in {"update_map", "lock_versions", "write", "drop_versions",
                "drop_map"}
\* the system of T can take its next step
CanStep(T) ==
    \/ kPc[T] \in {"check", "update_map", "write", "drop_versions",
                   "drop_map"}
    \/ kPc[T] = "lock_map" /\ kMapLock = Free
    \/ kPc[T] = "lock_versions" /\ kVerLock = Free
\* the schedule has run both systems
TickDone == \A T \in Types : kPc[T] \in {"saved", "skipped"}
\* the file holds the current delta of T, no key when T is at its defaults
SectionCurrent(T) ==
    IF kLive[T] = Default(T)
    THEN SECTION(T) \notin DOMAIN TickFileSections
    ELSE /\ SECTION(T) \in DOMAIN TickFileSections
         /\ TickFileSections[SECTION(T)] = FieldDelta(T, kLive[T])

\* the map mutex serialises the systems, the versions mutex is held only
\* by the holder of the map mutex, and a system that has not finished
\* never leaves all systems blocked
TickLocks ==
    /\ \A T \in Types : InMapSection(T) <=> kMapLock = T
    /\ \A T \in Types :
          kPc[T] \in {"write", "drop_versions"} <=> kVerLock = T
    /\ kVerLock # Free => kVerLock = kMapLock
    /\ (\E T \in Types : kPc[T] \in {"lock_map", "lock_versions"})
         => \E T \in Types : CanStep(T)
\* when the schedule has run, the file holds the current delta of every
\* section that was saved in the tick
TickLastWrite ==
    TickDone => \A T \in Types : kPc[T] = "saved" => SectionCurrent(T)
\* a write is made by the holder of the map mutex and leaves in the file
\* the sections of the shared map, no file when the map is empty
TickWriteStep ==
    \A T \in Types :
        (kPc[T] = "write" /\ kPc'[T] = "drop_versions") =>
            /\ kMapLock = T
            /\ kMap' = kMap
            /\ IF DOMAIN kMap = {} THEN StorePath \notin DOMAIN kDisk'
               ELSE /\ StorePath \in DOMAIN kDisk'
                    /\ Without(kDisk'[StorePath].root.m, "_versions") = kMap

\* C25: in every interleaving of the save systems of two sections that
\* changed in the same tick, the updates of the shared map and the file
\* writes are serialised by the map mutex, the versions mutex is taken
\* after it and no system blocks for ever, every write is a snapshot of
\* the shared map, and the last write of the tick holds the current
\* deltas of both; a section saved again holds its last value.
C25_SameTickOrdering ==
    /\ [](TickLocks /\ TickLastWrite)
    /\ [][TickWriteStep]_vars

\* both sections changed in one tick, both systems have saved, and the
\* file holds both deltas
C25_Witness ==
    /\ \A T \in Types : kPc[T] = "saved" /\ kLive[T] # Default(T)
    /\ DOMAIN TickFileSections = {SECTION(T) : T \in Types}
    /\ \A T \in Types : SectionCurrent(T)


\* C29: a load that returns an error (path resolution, file read,
\* unsupported extension, decode, merge or deserialise) leaves the
\* resource exactly as it was before the call, and the files as they were.
C29_FailedLoadKeepsResource ==
    [][(mOp' = "load" /\ IsErr(mResult'))
         => /\ mRes' = mRes
            /\ mFiles' = mFiles
            /\ mDirs' = mDirs]_vars

\* a load that failed on the file's content, with a resource that is not
\* the default
C29_Witness ==
    /\ mOp = "load"
    /\ mResult \in {SerializationError, IoError}
    /\ SlotOf(mRes) = Str("slot_1")
    /\ mRes.m["inventory"] # InventoryDefault
    /\ FileOf(mRes, mExt) \in DOMAIN mFiles


(***************************************************************************)
(* Properties of validate_value (SpecMeta)                                 *)
(***************************************************************************)
\* C30: for every integer given, validate_value of an Integer kind returns
\* ValidationFailed when the integer is below min or above max, also for
\* an unsigned value above the signed maximum, and Ok only for an integer
\* within the bounds that are set.
C30_IntegerBounds ==
    (vPc = "validated" /\ vVal.t = "num") =>
        IF \/ vMin # None /\ vVal.n < vMin.v
           \/ vMax # None /\ vVal.n > vMax.v
        THEN vResult = ValidationFailed
        ELSE vResult = Ok

====
